---- MODULE Spec2Model ----
(***************************************************************************)
(* Look-ahead scheduler, live voice dispatch and offline renderer of the   *)
(* pixel-game-music-generator.                                             *)
(*                                                                         *)
(* Time is counted in units of 1/80 s on the audio clock                   *)
(* (context.currentTime): 25 ms = 2 units, 0.1 s = 8 units and one 16th    *)
(* note at tempo t lasts 60/t/4 s = 1200/t units, which is exact for the   *)
(* tempos used here (all divide 1200).  Gains, volumes and velocities are  *)
(* fixed-point numbers in units of 1/10000, exact for products of up to    *)
(* four values given in tenths.                                            *)
(***************************************************************************)
EXTENDS Integers, Sequences, FiniteSets, Bags, TLC

\* ---------------------------------------------------------------- bounds
MaxTime == 6
MaxPassTime == 74
MaxCalls == 3
MaxResumes == 1
MaxApiTime == 2
MaxBeat == 16
MaxMixTime == 2
MaxEnv == 3
MaxDuty == 16
MaxChannels == 2
MaxFrames == 3
MaxDuration == 8
MaxEditTime == 3
MaxStepTime == 10
MaxStepDepth == 20
MaxStepLog == 2
MaxEngineCalls == 5
MaxInFlight == 2
MaxAsyncTime == 6

\* ------------------------------------------------------------- constants
TicksPerSecond == 80
Scale == 10000
\* Duty cycles are counted in sixteenths: 0.125 is 2, 0.5 is 8.
DutyUnit == 16
MAX_HISTORY == 50
\* Sample values are counted in quarters: 1.0 is 4, -0.25 is -1.
SampleUnit == 4
\* 60.0 / 0 in advanceNote; every finite time of the model is below it.
Infinity == 1000000
SCHEDULE_AHEAD_SEC == TicksPerSecond \div 10
NULL == 0
NoCallback == "null"

VARIABLES
  isPlaying, currentBeat, nextNoteTime, tempo, timerID, notesInQueue,
  onBeatCallback, onVisualBeatCallback, loopStart, loopEnd, loopEnabled,
  animationFrameId,
  now, timers, frames,
  isInitialized, project, transport,
  beatLog, visLog, voices, resumes, lastCall, previewed, calc, instruments,
  history, engine, inFlight

schedVars == <<isPlaying, currentBeat, nextNoteTime, tempo, timerID,
               notesInQueue, onBeatCallback, onVisualBeatCallback, loopStart,
               loopEnd, loopEnabled, animationFrameId, timers, frames,
               beatLog, visLog, voices, resumes>>

vars == <<isPlaying, currentBeat, nextNoteTime, tempo, timerID, notesInQueue,
          onBeatCallback, onVisualBeatCallback, loopStart, loopEnd,
          loopEnabled, animationFrameId, now, timers, frames, isInitialized,
          project, transport, beatLog, visLog, voices, resumes,
          lastCall, previewed, calc, instruments, history, engine,
          inFlight>>

appVars == <<history, engine, inFlight>>

\* ------------------------------------------------------------ arithmetic
Max(a, b) == IF a >= b THEN a ELSE b

Min(a, b) == IF a <= b THEN a ELSE b

FMul(a, b) == (a * b) \div Scale

\* ----------------------------------------------------------------- data
Note(p, b, d, v) == [pitch |-> p, startBeat |-> b, duration |-> d, velocity |-> v]

DEFAULT_TRACKS ==
  << [id |-> "lead", type |-> "synth", notes |-> <<>>, muted |-> FALSE,
      solo |-> FALSE, volume |-> 8000],
     [id |-> "drums", type |-> "drums", notes |-> <<>>, muted |-> FALSE,
      solo |-> FALSE, volume |-> 10000] >>

SongTracks ==
  << [id |-> "lead", type |-> "synth",
      notes |-> << Note(69, 0, 1, 8000), Note(72, 1, 2, 10000),
                   Note(76, 3, 1, 8000) >>,
      muted |-> FALSE, solo |-> FALSE, volume |-> 8000],
     [id |-> "drums", type |-> "drums",
      notes |-> << Note(36, 0, 1, 8000), Note(99, 1, 1, 10000) >>,
      muted |-> FALSE, solo |-> FALSE, volume |-> 10000],
     [id |-> "extra", type |-> "synth",
      notes |-> << Note(60, 0, 1, 10000) >>,
      muted |-> FALSE, solo |-> FALSE, volume |-> 10000] >>

\* The configs of the instrument store for the tracks 'lead' and 'drums':
\* waveform, gain and the release time of the envelope (0.2 s and 0.1 s).
DEFAULT_INSTRUMENTS ==
  [lead  |-> [waveform |-> "square", gain |-> 8000,
              adsr |-> [release |-> TicksPerSecond \div 5]],
   drums |-> [waveform |-> "noise", gain |-> 10000,
              adsr |-> [release |-> TicksPerSecond \div 10]]]

drumMap ==
  [p \in {36, 38, 42, 44, 45, 46, 47, 49} |->
     CASE p = 36 -> "kick"   [] p = 38 -> "snare"   [] p = 42 -> "hihat"
       [] p = 44 -> "clap"   [] p = 45 -> "tom"     [] p = 46 -> "openhat"
       [] p = 47 -> "rimshot" [] p = 49 -> "crash"]

DrumType(pitch) == IF pitch \in DOMAIN drumMap THEN drumMap[pitch] ELSE "kick"

renderDrumMap ==
  [p \in {36, 38, 42, 44, 45, 46, 47, 49} |->
     CASE p = 36 -> "kick"   [] p = 38 -> "snare"   [] p = 42 -> "hihat"
       [] p = 44 -> "clap"   [] p = 45 -> "tom"     [] p = 46 -> "openhat"
       [] p = 47 -> "rimshot" [] p = 49 -> "crash"]

renderDrumType(pitch) ==
  IF pitch \in DOMAIN renderDrumMap THEN renderDrumMap[pitch] ELSE "kick"

previewDrumMap_old ==
  [p \in {36, 38, 42, 45} |->
     CASE p = 36 -> "kick" [] p = 38 -> "snare" [] p = 42 -> "hihat"
       [] p = 45 -> "tom"]

previewDrumMap ==
  [p \in {36, 38, 42, 44, 45, 46, 47, 49} |->
     CASE p = 36 -> "kick"   [] p = 38 -> "snare"   [] p = 42 -> "hihat"
       [] p = 44 -> "clap"   [] p = 45 -> "tom"     [] p = 46 -> "openhat"
       [] p = 47 -> "rimshot" [] p = 49 -> "crash"]

previewDrumType(pitch) ==
  IF pitch \in DOMAIN previewDrumMap THEN previewDrumMap[pitch] ELSE "kick"

\* No snapshot taken, no audio graph built, no play() awaiting.
NoHistory == [undoStack |-> <<>>, redoStack |-> <<>>, isUndoRedoing |-> FALSE]

NoEngine ==
  [contexts |-> 0, buses |-> 0, oscillators |-> 0, schedulers |-> 0,
   state |-> "none", resumeCalls |-> 0, awaitingResume |-> 0,
   awaitingPlain |-> 0, calls |-> 0, isReady |-> FALSE]

NoneInFlight == [initializing |-> 0, resuming |-> 0, last |-> "none"]

NoCalc == [op |-> "none", args |-> <<>>, done |-> TRUE, out |-> <<>>]

Call(op, args) == [op |-> op, args |-> args, done |-> FALSE, out |-> <<>>]

NoPreview == [kind |-> "none", track |-> "none", pitch |-> 0, drum |-> "none",
              gain |-> 0]

Project(t, ls, le, en, trks) ==
  [tempo |-> t, loopStart |-> ls, loopEnd |-> le, loopEnabled |-> en,
   tracks |-> trks]

ProjectFiles ==
  { Project(240, 0, 2, TRUE, SongTracks),
    Project(240, 3, 5, TRUE, SongTracks) }

\* ------------------------------------------------- Scheduler: time mapping
\* (60.0 / tempo) / 4 for any number tempo: negative for a negative tempo and
\* Infinity for 0.
SecondsPer16th(t) ==
  IF t > 0 THEN ((60 * TicksPerSecond) \div t) \div 4
  ELSE IF t < 0 THEN -(((60 * TicksPerSecond) \div (-t)) \div 4)
  ELSE Infinity

durationToTime(t, duration) == (duration * ((60 * TicksPerSecond) \div t)) \div 4

beatToTime_perQuarter(t, beat) == beat * ((60 * TicksPerSecond) \div t)

beatToTime(t, beat) == (beat * ((60 * TicksPerSecond) \div t)) \div 4

\* ------------------------------------------------ AudioEngine: dispatching
Voice(track, note, time, gain, dur, drum, nodes) ==
  [track |-> track.id, volume |-> track.volume, pitch |-> note.pitch,
   startBeat |-> note.startBeat, velocity |-> note.velocity, time |-> time,
   gain |-> gain, duration |-> dur, drum |-> drum, nodes |-> nodes]

\* The number of source nodes (oscillators and noise buffers) a drum hit
\* starts: the live oscillator knows four recipes, the offline renderer
\* eight.
oscillatorPlayDrum(drumType) ==
  CASE drumType = "kick" -> 1
    [] drumType = "snare" -> 2
    [] drumType = "hihat" -> 1
    [] drumType = "tom" -> 1
    [] OTHER -> 0

scheduleDrum(drumType) ==
  CASE drumType = "kick" -> 1
    [] drumType = "snare" -> 2
    [] drumType = "hihat" -> 1
    [] drumType = "tom" -> 1
    [] drumType = "clap" -> 3
    [] drumType = "openhat" -> 1
    [] drumType = "crash" -> 1
    [] drumType = "rimshot" -> 2
    [] OTHER -> 0

hasSolo(trks) == \E i \in DOMAIN trks : trks[i].solo

Audible_soloOverridesMute(trks, i) ==
  trks[i].solo \/ (~trks[i].muted /\ ~hasSolo(trks))

Audible(trks, i) == ~trks[i].muted /\ ~(hasSolo(trks) /\ ~trks[i].solo)

playNote(track, note, time, config, schedTempo) ==
  Voice(track, note, time, FMul(config.gain, note.velocity),
        durationToTime(schedTempo, note.duration), "none", 1)

playDrum(track, note, drumType, time, velocity) ==
  Voice(track, note, time, velocity, 0, drumType,
        oscillatorPlayDrum(drumType))

TrackVoicesAt_defaultConfig(track, beat, time, schedTempo) ==
  LET notesAtBeat == SelectSeq(track.notes, LAMBDA n : n.startBeat = beat)
      One(note) ==
        LET config == IF track.id \in DOMAIN instruments
                      THEN instruments[track.id] ELSE instruments.lead
            noteConfig ==
              [config EXCEPT !.gain =
                 FMul(FMul(config.gain, track.volume), note.velocity)]
        IN IF track.type = "drums"
           THEN << playDrum(track, note, DrumType(note.pitch), time,
                            noteConfig.gain) >>
           ELSE << playNote(track, note, time, noteConfig, schedTempo) >>
      F[k \in 0..Len(notesAtBeat)] ==
        IF k = 0 THEN <<>> ELSE F[k - 1] \o One(notesAtBeat[k])
  IN F[Len(notesAtBeat)]

TrackVoicesAt(track, beat, time, schedTempo) ==
  LET notesAtBeat == SelectSeq(track.notes, LAMBDA n : n.startBeat = beat)
      One(note) ==
        IF track.id \notin DOMAIN instruments THEN <<>>
        ELSE LET config == instruments[track.id]
                 noteConfig ==
                   [config EXCEPT !.gain =
                      FMul(FMul(config.gain, track.volume), note.velocity)]
             IN IF track.type = "drums"
                THEN << playDrum(track, note, DrumType(note.pitch), time,
                                 noteConfig.gain) >>
                ELSE << playNote(track, note, time, noteConfig, schedTempo) >>
      F[k \in 0..Len(notesAtBeat)] ==
        IF k = 0 THEN <<>> ELSE F[k - 1] \o One(notesAtBeat[k])
  IN F[Len(notesAtBeat)]

playBeat(trks, beat, time, schedTempo) ==
  LET F[k \in 0..Len(trks)] ==
        IF k = 0 THEN <<>>
        ELSE IF Audible(trks, k)
             THEN F[k - 1] \o TrackVoicesAt(trks[k], beat, time, schedTempo)
             ELSE F[k - 1]
  IN F[Len(trks)]

\* ------------------------------------------------------ pulse wave cache
Abs(x) == IF x < 0 THEN -x ELSE x

\* for (const d of duties) { if (diff < minDiff) { minDiff = diff; closest = d } }
RECURSIVE closestDuty(_, _, _, _)
closestDuty(duties, dutyCycle, i, closest) ==
  IF i > Len(duties) THEN closest
  ELSE closestDuty(duties, dutyCycle, i + 1,
                   IF Abs(dutyCycle - duties[i]) < Abs(dutyCycle - closest)
                   THEN duties[i] ELSE closest)

\* The cached duty cycle whose table ChiptuneOscillator.getPulseWave returns.
getPulseWave(dutyCycle) ==
  LET duties == <<2, 4, 8, 12>>
  IN closestDuty(duties, dutyCycle, 1, 8)

\* The same for AudioRenderer.getPulseWave.
renderGetPulseWave(dutyCycle) ==
  LET duties == <<2, 4, 8, 12>>
  IN closestDuty(duties, dutyCycle, 1, 8)

\* ------------------------------------------------------- ADSR envelope
\* The times of the envelope's control points, as ChiptuneOscillator (live)
\* and AudioRenderer (offline) compute them.
applyADSR_noFloor(startTime, duration, attack, decay, release) ==
  LET attackEnd == startTime + attack
      decayEnd == attackEnd + decay
      releaseStart == startTime + (duration - release)
      releaseEnd == releaseStart + release
  IN [startTime |-> startTime, attackEnd |-> attackEnd, decayEnd |-> decayEnd,
      releaseStart |-> releaseStart, releaseEnd |-> releaseEnd]

applyADSR(startTime, duration, attack, decay, release) ==
  LET attackEnd == startTime + attack
      decayEnd == attackEnd + decay
      releaseStart == startTime + Max(duration - release, attack + decay)
      releaseEnd == releaseStart + release
  IN [startTime |-> startTime, attackEnd |-> attackEnd, decayEnd |-> decayEnd,
      releaseStart |-> releaseStart, releaseEnd |-> releaseEnd]

renderApplyADSR(startTime, duration, attack, decay, release) ==
  LET attackEnd == startTime + attack
      decayEnd == attackEnd + decay
      releaseStart == startTime + Max(duration - release, attack + decay)
      releaseEnd == releaseStart + release
  IN [startTime |-> startTime, attackEnd |-> attackEnd, decayEnd |-> decayEnd,
      releaseStart |-> releaseStart, releaseEnd |-> releaseEnd]

\* osc.stop(...) / source.stop(...) of ChiptuneOscillator.playNote and
\* playNoise; 0.05 s is TicksPerSecond \div 20.
playNoteStop(startTime, duration, release) ==
  startTime + duration + release + TicksPerSecond \div 20

\* The same for AudioRenderer.scheduleNote and scheduleNoise.
scheduleNoteStop(startTime, duration, release) ==
  startTime + duration + release + TicksPerSecond \div 20

\* ------------------------------------------- AudioRenderer: dispatching
RenderTrack(track, bpm, ls, le) ==
  LET inLoop == SelectSeq(track.notes,
                          LAMBDA n : ~(n.startBeat < ls \/ n.startBeat >= le))
      One(note) ==
        LET config == instruments[track.id]
            time == (note.startBeat - ls) * SecondsPer16th(bpm)
            noteDuration == note.duration * SecondsPer16th(bpm)
            noteConfig ==
              [config EXCEPT !.gain =
                 FMul(FMul(config.gain, track.volume), note.velocity)]
        IN IF track.type = "drums"
           THEN Voice(track, note, time, noteConfig.gain, 0,
                      renderDrumType(note.pitch),
                      scheduleDrum(renderDrumType(note.pitch)))
           ELSE Voice(track, note, time, noteConfig.gain, noteDuration,
                      "none", 1)
      F[k \in 0..Len(inLoop)] ==
        IF k = 0 THEN <<>> ELSE Append(F[k - 1], One(inLoop[k]))
  IN F[Len(inLoop)]

renderHasSolo(trks) == \E i \in DOMAIN trks : trks[i].solo

renderAudible(trks, i) ==
  ~trks[i].muted /\ ~(renderHasSolo(trks) /\ ~trks[i].solo)

renderToWav(trks, bpm, ls, le) ==
  LET F[k \in 0..Len(trks)] ==
        IF k = 0 THEN <<>>
        ELSE IF renderAudible(trks, k) /\ trks[k].id \in DOMAIN instruments
             THEN F[k - 1] \o RenderTrack(trks[k], bpm, ls, le)
             ELSE F[k - 1]
  IN F[Len(trks)]

\* const duration = totalBeats * secondsPer16th + 1
renderDuration(bpm, ls, le) ==
  LET totalBeats == le - ls
  IN totalBeats * SecondsPer16th(bpm) + TicksPerSecond

\* osc.stop(startTime + duration + adsr.release + 0.05), for a voice of
\* scheduleNote or scheduleNoise.
renderStopTime(v) ==
  v.time + v.duration + instruments[v.track].adsr.release
    + TicksPerSecond \div 20

\* The values passed to onProgress during one renderToWav call, each as
\* <<numerator, denominator>>.
renderProgress_noHalf(trks, bpm, ls, le) ==
  LET T[k \in 0..Len(trks)] ==
        IF k = 0 THEN 0 ELSE T[k - 1] + Len(trks[k].notes)
      totalNotes == T[Len(trks)]
      scheduled == Len(renderToWav(trks, bpm, ls, le))
  IN [scheduledNotes \in 1..scheduled |-> <<scheduledNotes, totalNotes>>]
       \o << <<9, 10>>, <<1, 1>> >>

renderProgress(trks, bpm, ls, le) ==
  LET T[k \in 0..Len(trks)] ==
        IF k = 0 THEN 0 ELSE T[k - 1] + Len(trks[k].notes)
      totalNotes == T[Len(trks)]
      scheduled == Len(renderToWav(trks, bpm, ls, le))
  IN [scheduledNotes \in 1..scheduled |-> <<scheduledNotes, 2 * totalNotes>>]
       \o << <<9, 10>>, <<1, 1>> >>

\* --------------------------------------------------- browser timer handles
FreshHandle(pending) ==
  CHOOSE h \in 1..(Cardinality(pending) + 1) :
    h \notin pending /\ \A g \in 1..(Cardinality(pending) + 1) :
                          g \notin pending => h <= g

\* --------------------------------------------------------- Scheduler state
World ==
  [isPlaying |-> isPlaying, currentBeat |-> currentBeat,
   nextNoteTime |-> nextNoteTime, tempo |-> tempo, timerID |-> timerID,
   notesInQueue |-> notesInQueue, onBeatCallback |-> onBeatCallback,
   onVisualBeatCallback |-> onVisualBeatCallback, loopStart |-> loopStart,
   loopEnd |-> loopEnd, loopEnabled |-> loopEnabled,
   animationFrameId |-> animationFrameId, timers |-> timers,
   frames |-> frames, beatLog |-> beatLog, visLog |-> visLog,
   voices |-> voices, resumes |-> resumes]

Commit(w) ==
  /\ isPlaying' = w.isPlaying
  /\ currentBeat' = w.currentBeat
  /\ nextNoteTime' = w.nextNoteTime
  /\ tempo' = w.tempo
  /\ timerID' = w.timerID
  /\ notesInQueue' = w.notesInQueue
  /\ onBeatCallback' = w.onBeatCallback
  /\ onVisualBeatCallback' = w.onVisualBeatCallback
  /\ loopStart' = w.loopStart
  /\ loopEnd' = w.loopEnd
  /\ loopEnabled' = w.loopEnabled
  /\ animationFrameId' = w.animationFrameId
  /\ timers' = w.timers
  /\ frames' = w.frames
  /\ beatLog' = w.beatLog
  /\ visLog' = w.visLog
  /\ voices' = w.voices
  /\ resumes' = w.resumes

scheduleNote_redispatch(w, beat, time, trks) ==
  LET log == IF w.onBeatCallback = NoCallback THEN w.beatLog
             ELSE Append(w.beatLog, [beat |-> beat, time |-> time,
                                     loopStart |-> w.loopStart,
                                     loopEnd |-> w.loopEnd,
                                     loopEnabled |-> w.loopEnabled,
                                     tempo |-> w.tempo,
                                     resumes |-> w.resumes])
      F[c \in 0..Len(log)] ==
        IF c = 0 THEN <<>>
        ELSE LET made == playBeat(trks, log[c].beat, log[c].time, w.tempo)
             IN F[c - 1] \o [i \in 1..Len(made) |-> [call |-> c, v |-> made[i]]]
  IN [w EXCEPT
        !.notesInQueue = Append(@, [beat |-> beat, time |-> time]),
        !.beatLog = log,
        !.voices = F[Len(log)]]

scheduleNote(w, beat, time, trks) ==
  LET call == Len(w.beatLog) + 1
      made == IF w.onBeatCallback = NoCallback THEN <<>>
              ELSE playBeat(trks, beat, time, w.tempo)
  IN [w EXCEPT
        !.notesInQueue = Append(@, [beat |-> beat, time |-> time]),
        !.beatLog = IF w.onBeatCallback = NoCallback THEN @
                    ELSE Append(@, [beat |-> beat, time |-> time,
                                    loopStart |-> w.loopStart,
                                    loopEnd |-> w.loopEnd,
                                    loopEnabled |-> w.loopEnabled,
                                    tempo |-> w.tempo,
                                    resumes |-> w.resumes]),
        !.voices = @ \o [i \in 1..Len(made) |->
                           [call |-> call, v |-> made[i]]]]

advanceNote_wrapLate(w) ==
  LET n == w.currentBeat + 1
  IN [w EXCEPT
        !.nextNoteTime = @ + SecondsPer16th(w.tempo),
        !.currentBeat = IF w.loopEnabled /\ n > w.loopEnd
                        THEN w.loopStart ELSE n]

advanceNote_wrapToZero(w) ==
  LET n == w.currentBeat + 1
  IN [w EXCEPT
        !.nextNoteTime = @ + SecondsPer16th(w.tempo),
        !.currentBeat = IF w.loopEnabled /\ n >= w.loopEnd THEN 0 ELSE n]

advanceNote(w) ==
  LET n == w.currentBeat + 1
  IN [w EXCEPT
        !.nextNoteTime = @ + SecondsPer16th(w.tempo),
        !.currentBeat = IF w.loopEnabled /\ n >= w.loopEnd
                        THEN w.loopStart ELSE n]

RECURSIVE scheduleLoop(_, _, _)
scheduleLoop(w, t, trks) ==
  IF w.nextNoteTime < t + SCHEDULE_AHEAD_SEC
  THEN scheduleLoop(advanceNote(scheduleNote(w, w.currentBeat,
                                             w.nextNoteTime, trks)), t, trks)
  ELSE w

schedule_singleBeat(w, t, trks) ==
  IF ~w.isPlaying THEN w
  ELSE LET w2 == IF w.nextNoteTime < t + SCHEDULE_AHEAD_SEC
                 THEN advanceNote(scheduleNote(w, w.currentBeat,
                                               w.nextNoteTime, trks))
                 ELSE w
           h == FreshHandle(w2.timers)
       IN [w2 EXCEPT !.timerID = h, !.timers = @ \cup {h}]

schedule(w, t, trks) ==
  IF ~w.isPlaying THEN w
  ELSE LET w2 == scheduleLoop(w, t, trks)
           h == FreshHandle(w2.timers)
       IN [w2 EXCEPT !.timerID = h, !.timers = @ \cup {h}]

startVisualUpdater(w) ==
  LET h == FreshHandle(w.frames)
  IN [w EXCEPT !.animationFrameId = h, !.frames = @ \cup {h}]

RECURSIVE drainQueue_lifo(_, _)
drainQueue_lifo(w, t) ==
  IF Len(w.notesInQueue) > 0 /\ w.notesInQueue[1].time < t
  THEN LET last == w.notesInQueue[Len(w.notesInQueue)]
       IN drainQueue_lifo(
            [w EXCEPT
               !.notesInQueue = SubSeq(@, 1, Len(@) - 1),
               !.visLog = Append(@, [beat |-> last.beat, time |-> last.time])],
            t)
  ELSE w

RECURSIVE drainQueue_early(_, _)
drainQueue_early(w, t) ==
  IF Len(w.notesInQueue) > 0 /\ w.notesInQueue[1].time <= t
  THEN drainQueue_early(
         [w EXCEPT
            !.notesInQueue = Tail(@),
            !.visLog = Append(@, [beat |-> w.notesInQueue[1].beat,
                                  time |-> w.notesInQueue[1].time])], t)
  ELSE w

RECURSIVE drainQueue(_, _)
drainQueue(w, t) ==
  IF Len(w.notesInQueue) > 0 /\ w.notesInQueue[1].time < t
  THEN drainQueue(
         [w EXCEPT
            !.notesInQueue = Tail(@),
            !.visLog = IF w.onVisualBeatCallback = NoCallback THEN @
                       ELSE Append(@, [beat |-> w.notesInQueue[1].beat,
                                       time |-> w.notesInQueue[1].time])],
         t)
  ELSE w

update(w, t) ==
  IF ~w.isPlaying THEN w
  ELSE LET w2 == drainQueue(w, t)
           h == FreshHandle(w2.frames)
       IN [w2 EXCEPT !.animationFrameId = h, !.frames = @ \cup {h}]

\* start() up to its call of schedule().
startBegin(w, t, bpm, startBeat) ==
  IF w.isPlaying THEN w
  ELSE [w EXCEPT !.tempo = bpm,
                 !.onBeatCallback = "playBeat",
                 !.onVisualBeatCallback = "setCurrentBeat",
                 !.isPlaying = TRUE,
                 !.currentBeat = startBeat,
                 !.nextNoteTime = t,
                 !.notesInQueue = <<>>,
                 !.beatLog = <<>>,
                 !.visLog = <<>>,
                 !.voices = <<>>,
                 !.resumes = 0]

start_restart(w, t, bpm, startBeat, trks) ==
  LET w1 == [w EXCEPT !.tempo = bpm,
                      !.onBeatCallback = "playBeat",
                      !.onVisualBeatCallback = "setCurrentBeat",
                      !.isPlaying = TRUE,
                      !.currentBeat = startBeat,
                      !.nextNoteTime = t,
                      !.notesInQueue = <<>>,
                      !.beatLog = <<>>,
                      !.visLog = <<>>,
                      !.voices = <<>>,
                      !.resumes = 0]
  IN startVisualUpdater(schedule(w1, t, trks))

start(w, t, bpm, startBeat, trks) ==
  IF w.isPlaying THEN w
  ELSE LET w1 == [w EXCEPT !.tempo = bpm,
                           !.onBeatCallback = "playBeat",
                           !.onVisualBeatCallback = "setCurrentBeat",
                           !.isPlaying = TRUE,
                           !.currentBeat = startBeat,
                           !.nextNoteTime = t,
                           !.notesInQueue = <<>>,
                           !.beatLog = <<>>,
                           !.visLog = <<>>,
                           !.voices = <<>>,
                           !.resumes = 0]
       IN startVisualUpdater(schedule(w1, t, trks))

clearHandles(w) ==
  LET w1 == IF w.timerID # NULL
            THEN [w EXCEPT !.timers = @ \ {w.timerID}, !.timerID = NULL]
            ELSE w
  IN IF w1.animationFrameId # NULL
     THEN [w1 EXCEPT !.frames = @ \ {w1.animationFrameId},
                     !.animationFrameId = NULL]
     ELSE w1

stop_keepBeat(w) ==
  [clearHandles([w EXCEPT !.isPlaying = FALSE])
     EXCEPT !.notesInQueue = <<>>,
            !.beatLog = <<>>, !.visLog = <<>>, !.voices = <<>>,
            !.resumes = 0]

\* stop() ends the play session, so the session logs start afresh.
stop(w) ==
  [clearHandles([w EXCEPT !.isPlaying = FALSE])
     EXCEPT !.notesInQueue = <<>>, !.currentBeat = 0,
            !.beatLog = <<>>, !.visLog = <<>>, !.voices = <<>>,
            !.resumes = 0]

pause_keepTimer(w) ==
  IF w.animationFrameId # NULL
  THEN [w EXCEPT !.isPlaying = FALSE,
                 !.frames = @ \ {w.animationFrameId},
                 !.animationFrameId = NULL]
  ELSE [w EXCEPT !.isPlaying = FALSE]

pause(w) == clearHandles([w EXCEPT !.isPlaying = FALSE])

resume_noGuard(w, t, trks) ==
  startVisualUpdater(
    schedule([w EXCEPT !.isPlaying = TRUE, !.nextNoteTime = t,
                       !.resumes = @ + 1], t, trks))

resume_noReanchor(w, t, trks) ==
  IF w.isPlaying THEN w
  ELSE startVisualUpdater(
         schedule([w EXCEPT !.isPlaying = TRUE, !.resumes = @ + 1], t, trks))

resume(w, t, trks) ==
  IF w.isPlaying THEN w
  ELSE startVisualUpdater(
         schedule([w EXCEPT !.isPlaying = TRUE, !.nextNoteTime = t,
                            !.resumes = @ + 1], t, trks))

setTempo_retime(w, bpm) ==
  [w EXCEPT !.tempo = Max(40, Min(240, bpm)),
            !.nextNoteTime = @ - SecondsPer16th(w.tempo)
                               + SecondsPer16th(Max(40, Min(240, bpm)))]

setTempo(w, bpm) == [w EXCEPT !.tempo = Max(40, Min(240, bpm))]

setLoop(w, s, e, enabled) ==
  [w EXCEPT !.loopStart = s, !.loopEnd = e, !.loopEnabled = enabled]

\* --------------------------------------------------------- project store
setLoopRegion(p, s, e) ==
  LET ls == Max(0, s)
  IN [p EXCEPT !.loopStart = ls, !.loopEnd = Max(ls + 1, e)]

storeSetTempo(p, newTempo) == [p EXCEPT !.tempo = Max(40, Min(240, newTempo))]

newProject(p) == Project(120, 0, 16, TRUE, DEFAULT_TRACKS)

loadFromJSON(p, file) ==
  [p EXCEPT !.tempo = file.tempo, !.tracks = file.tracks,
            !.loopEnabled = file.loopEnabled, !.loopStart = file.loopStart,
            !.loopEnd = file.loopEnd]

\* The watchers registered by usePlayback: a changed tempo reaches the
\* scheduler only while the transport store says 'playing', a changed loop
\* region always does. Before initialize() the scheduler getter throws and
\* the watcher leaves the scheduler untouched.
Watchers(w, old, new) ==
  LET w1 == IF new.tempo # old.tempo /\ transport.playbackState = "playing"
               /\ isInitialized
            THEN setTempo(w, new.tempo) ELSE w
  IN IF /\ isInitialized
        /\ <<new.loopStart, new.loopEnd, new.loopEnabled>>
             # <<old.loopStart, old.loopEnd, old.loopEnabled>>
     THEN setLoop(w1, new.loopStart, new.loopEnd, new.loopEnabled)
     ELSE w1

StoreChange(new, op) ==
  /\ new # project
  /\ project' = new
  /\ Commit(Watchers(World, project, new))
  /\ lastCall' = op
  /\ UNCHANGED <<previewed, calc, instruments>>
  /\ UNCHANGED appVars
  /\ UNCHANGED <<now, isInitialized, transport>>

\* ------------------------------------------------ editing during playback
\* tracks.value.find(t => t.id === trackId): index of the track, 0 for none.
FindTrack(trks, trackId) ==
  IF \E k \in DOMAIN trks : trks[k].id = trackId
  THEN CHOOSE k \in DOMAIN trks :
         trks[k].id = trackId /\ \A j \in 1..(k - 1) : trks[j].id # trackId
  ELSE 0

toggleNote(trks, trackId, beat, pitch) ==
  LET k == FindTrack(trks, trackId)
  IN IF k = 0 THEN trks
     ELSE LET notes == trks[k].notes
              hit(n) == notes[n].pitch = pitch /\ notes[n].startBeat = beat
          IN IF \E n \in DOMAIN notes : hit(n)
             THEN LET existingIndex ==
                        CHOOSE n \in DOMAIN notes :
                          hit(n) /\ \A j \in 1..(n - 1) : ~hit(j)
                  IN [trks EXCEPT ![k].notes =
                        SubSeq(notes, 1, existingIndex - 1)
                          \o SubSeq(notes, existingIndex + 1, Len(notes))]
             ELSE [trks EXCEPT ![k].notes =
                     Append(notes, Note(pitch, beat, 1, 8000))]

setTrackMuted(trks, trackId, muted) ==
  LET k == FindTrack(trks, trackId)
  IN IF k = 0 THEN trks ELSE [trks EXCEPT ![k].muted = muted]

setGain(instr, trackId, gain) ==
  IF trackId \in DOMAIN instr
  THEN [instr EXCEPT ![trackId].gain = Max(0, Min(Scale, gain))]
  ELSE instr

\* -------------------------------------------------------------- useHistory
getSnapshot(p) ==
  [tracks |-> p.tracks, tempo |-> p.tempo, loopStart |-> p.loopStart,
   loopEnd |-> p.loopEnd]

\* The project after applySnapshot: the tracks are replaced, tempo and loop
\* region go through the store's setters.
applySnapshot(p, state) ==
  setLoopRegion(storeSetTempo([p EXCEPT !.tracks = state.tracks], state.tempo),
                state.loopStart, state.loopEnd)

pushState_noLimit(h, p) ==
  IF h.isUndoRedoing THEN h
  ELSE [h EXCEPT !.undoStack = Append(@, getSnapshot(p)),
                 !.redoStack = <<>>]

pushState(h, p) ==
  IF h.isUndoRedoing THEN h
  ELSE LET pushed == Append(h.undoStack, getSnapshot(p))
       IN [h EXCEPT !.undoStack = IF Len(pushed) > MAX_HISTORY
                                  THEN Tail(pushed) ELSE pushed,
                    !.redoStack = <<>>]

\* undo and redo give the history, the project and the value returned.
undo(h, p) ==
  IF Len(h.undoStack) = 0
  THEN [history |-> h, project |-> p, result |-> FALSE]
  ELSE LET previousState == h.undoStack[Len(h.undoStack)]
       IN [history |->
             [h EXCEPT !.redoStack = Append(@, getSnapshot(p)),
                       !.undoStack = SubSeq(@, 1, Len(@) - 1),
                       !.isUndoRedoing = TRUE],
           project |-> applySnapshot(p, previousState),
           result |-> TRUE]

redo(h, p) ==
  IF Len(h.redoStack) = 0
  THEN [history |-> h, project |-> p, result |-> FALSE]
  ELSE LET redoState == h.redoStack[Len(h.redoStack)]
       IN [history |->
             [h EXCEPT !.undoStack = Append(@, getSnapshot(p)),
                       !.redoStack = SubSeq(@, 1, Len(@) - 1),
                       !.isUndoRedoing = TRUE],
           project |-> applySnapshot(p, redoState),
           result |-> TRUE]

\* ------------------------------------------------------------- usePlayback
previewNote(trks, trackId, pitch, prev) ==
  IF ~isInitialized THEN prev
  ELSE IF trackId \notin DOMAIN instruments THEN prev
  ELSE LET config == instruments[trackId]
           isDrums == \E k \in DOMAIN trks :
                        /\ trks[k].id = trackId
                        /\ \A j \in 1..(k - 1) : trks[j].id # trackId
                        /\ trks[k].type = "drums"
       IN IF isDrums
          THEN [kind |-> "drum", track |-> trackId, pitch |-> pitch,
                drum |-> previewDrumType(pitch), gain |-> 8000]
          ELSE [kind |-> "note", track |-> trackId, pitch |-> pitch,
                drum |-> "none", gain |-> config.gain]

PlayStartBeat ==
  IF transport.currentBeat >= project.loopEnd
  THEN project.loopStart ELSE transport.currentBeat

playBody ==
  start(setLoop(stop(World), project.loopStart, project.loopEnd,
                project.loopEnabled),
        now, project.tempo, PlayStartBeat, project.tracks)

\* ----------------------------------------------------------------- state
Init ==
  /\ isPlaying = FALSE
  /\ currentBeat = 0
  /\ nextNoteTime = 0
  /\ tempo = 120
  /\ timerID = NULL
  /\ notesInQueue = <<>>
  /\ onBeatCallback = NoCallback
  /\ onVisualBeatCallback = NoCallback
  /\ loopStart = 0
  /\ loopEnd = 16
  /\ loopEnabled = TRUE
  /\ animationFrameId = NULL
  /\ now = 0
  /\ timers = {}
  /\ frames = {}
  /\ isInitialized = FALSE
  /\ project = Project(120, 0, 16, TRUE, DEFAULT_TRACKS)
  /\ transport = [playbackState |-> "stopped", currentBeat |-> 0]
  /\ beatLog = <<>>
  /\ visLog = <<>>
  /\ voices = <<>>
  /\ resumes = 0
  /\ lastCall = "other"
  /\ previewed = NoPreview
  /\ calc = NoCalc
  /\ instruments = DEFAULT_INSTRUMENTS
  /\ history = NoHistory
  /\ engine = NoEngine
  /\ inFlight = NoneInFlight

\* ---------------------------------------------------------------- actions
\* Pausing and resuming without letting the clock advance dispatches new
\* beats every time, so the handlers that dispatch are capped.
WithinBounds == Len(beatLog) < MaxCalls /\ Len(notesInQueue) < MaxCalls

AdvanceClock(limit) ==
  /\ now < limit
  /\ now' = now + 1
  /\ lastCall' = "other"
  /\ UNCHANGED <<previewed, calc, instruments>>
  /\ UNCHANGED appVars
  /\ UNCHANGED <<schedVars, isInitialized, project, transport>>

Tick == AdvanceClock(MaxTime)

Initialize ==
  /\ ~isInitialized
  /\ isInitialized' = TRUE
  /\ lastCall' = "other"
  /\ UNCHANGED <<previewed, calc, instruments>>
  /\ UNCHANGED appVars
  /\ UNCHANGED <<schedVars, now, project, transport>>

Play ==
  /\ isInitialized' = TRUE
  /\ Commit(playBody)
  /\ transport' = [transport EXCEPT !.playbackState = "playing"]
  /\ lastCall' = "other"
  /\ UNCHANGED <<previewed, calc, instruments>>
  /\ UNCHANGED appVars
  /\ UNCHANGED <<now, project>>

Pause ==
  /\ isInitialized
  /\ Commit(pause(World))
  /\ transport' = [transport EXCEPT !.playbackState = "paused"]
  /\ lastCall' = "other"
  /\ UNCHANGED <<previewed, calc, instruments>>
  /\ UNCHANGED appVars
  /\ UNCHANGED <<now, isInitialized, project>>

Stop ==
  /\ isInitialized
  /\ Commit(stop(World))
  /\ transport' = [playbackState |-> "stopped", currentBeat |-> 0]
  /\ lastCall' = "other"
  /\ UNCHANGED <<previewed, calc, instruments>>
  /\ UNCHANGED appVars
  /\ UNCHANGED <<now, isInitialized, project>>

Resume ==
  /\ isInitialized
  /\ WithinBounds
  /\ isPlaying \/ resumes < MaxResumes
  /\ Commit(resume(World, now, project.tracks))
  /\ lastCall' = "other"
  /\ UNCHANGED <<previewed, calc, instruments>>
  /\ UNCHANGED appVars
  /\ UNCHANGED <<now, isInitialized, project, transport>>

StartWhilePlaying ==
  /\ isInitialized
  /\ isPlaying
  /\ Commit(start(World, now, project.tempo, PlayStartBeat, project.tracks))
  /\ lastCall' = "startWhilePlaying"
  /\ UNCHANGED <<previewed, calc, instruments>>
  /\ UNCHANGED appVars
  /\ UNCHANGED <<now, isInitialized, project, transport>>

TimerHandler ==
  \E h \in timers :
    /\ Commit(schedule([World EXCEPT !.timers = @ \ {h}], now, project.tracks))
    /\ lastCall' = "other"
    /\ UNCHANGED <<previewed, calc, instruments>>
    /\ UNCHANGED appVars
    /\ UNCHANGED <<now, isInitialized, project, transport>>

TimerFires == WithinBounds /\ TimerHandler

FrameFires ==
  \E h \in frames :
    LET w == update([World EXCEPT !.frames = @ \ {h}], now)
    IN /\ Commit(w)
       /\ transport' =
            IF Len(w.visLog) > Len(visLog)
            THEN [transport EXCEPT !.currentBeat = w.visLog[Len(w.visLog)].beat]
            ELSE transport
       /\ lastCall' = "other"
       /\ UNCHANGED <<previewed, calc, instruments>>
       /\ UNCHANGED appVars
       /\ UNCHANGED <<now, isInitialized, project>>

LoadFromJSON == \E f \in ProjectFiles : StoreChange(loadFromJSON(project, f), "other")

Next ==
  \/ Tick
  \/ Initialize
  \/ Play
  \/ Pause
  \/ Stop
  \/ Resume
  \/ StartWhilePlaying
  \/ TimerFires
  \/ FrameFires
  \/ LoadFromJSON

Spec == Init /\ [][Next]_vars

\* -------------------------------------------- one pass of the loop, alone
\* A single play() of a loaded project with nothing else going on: the
\* clock runs and the two periodic callbacks fire. play() overwrites every
\* scheduler field, so the scheduler starts as constructed; the transport
\* position is one left by an earlier pause. The clock is counted from the
\* moment play() is called.
PassProjects ==
  { Project(240, 0, 16, TRUE, SongTracks),
    Project(240, 0, 4, TRUE, SongTracks),
    Project(240, 1, 3, TRUE, SongTracks) }

PassBeats == {0, 3}

PassInit ==
  /\ isPlaying = FALSE
  /\ currentBeat = 0
  /\ nextNoteTime = 0
  /\ tempo = 120
  /\ timerID = NULL
  /\ notesInQueue = <<>>
  /\ onBeatCallback = NoCallback
  /\ onVisualBeatCallback = NoCallback
  /\ loopStart = 0
  /\ loopEnd = 16
  /\ loopEnabled = TRUE
  /\ animationFrameId = NULL
  /\ now = 0
  /\ timers = {}
  /\ frames = {}
  /\ isInitialized = TRUE
  /\ project \in PassProjects
  /\ \E b \in PassBeats :
       transport = [playbackState |-> IF b = 0 THEN "stopped" ELSE "paused",
                    currentBeat |-> b]
  /\ beatLog = <<>>
  /\ visLog = <<>>
  /\ voices = <<>>
  /\ resumes = 0
  /\ lastCall = "other"
  /\ previewed = NoPreview
  /\ calc = NoCalc
  /\ instruments = DEFAULT_INSTRUMENTS
  /\ history = NoHistory
  /\ engine = NoEngine
  /\ inFlight = NoneInFlight

PassPlay == transport.playbackState # "playing" /\ Play

PassTick == isPlaying /\ AdvanceClock(MaxPassTime)

PassTimerFires == TimerHandler

PassFrameFires == FrameFires

NextLoop ==
  \/ PassPlay
  \/ PassTick
  \/ PassTimerFires
  \/ PassFrameFires

SpecLoop == PassInit /\ [][NextLoop]_vars

\* ------------------------------------- the Scheduler's interface, directly
\* The Scheduler's public methods called with arbitrary arguments.
TempoInputs == {30, 300}

StartBeats == {0, 1}

LoopArgs == { <<0, 2, TRUE>>, <<2, 0, TRUE>>, <<2, 2, FALSE>> }

ApiInit ==
  /\ isPlaying = FALSE
  /\ currentBeat = 0
  /\ nextNoteTime = 0
  /\ tempo = 120
  /\ timerID = NULL
  /\ notesInQueue = <<>>
  /\ onBeatCallback = NoCallback
  /\ onVisualBeatCallback = NoCallback
  /\ loopStart = 0
  /\ loopEnd = 16
  /\ loopEnabled = TRUE
  /\ animationFrameId = NULL
  /\ now = 0
  /\ timers = {}
  /\ frames = {}
  /\ isInitialized = TRUE
  /\ project = Project(120, 0, 16, TRUE, DEFAULT_TRACKS)
  /\ transport = [playbackState |-> "stopped", currentBeat |-> 0]
  /\ beatLog = <<>>
  /\ visLog = <<>>
  /\ voices = <<>>
  /\ resumes = 0
  /\ lastCall = "other"
  /\ previewed = NoPreview
  /\ calc = NoCalc
  /\ instruments = DEFAULT_INSTRUMENTS
  /\ history = NoHistory
  /\ engine = NoEngine
  /\ inFlight = NoneInFlight

ApiStart ==
  \E t \in TempoInputs, b \in StartBeats :
    /\ Commit(start(World, now, t, b, project.tracks))
    /\ lastCall' = "other"
    /\ UNCHANGED <<previewed, calc, instruments>>
    /\ UNCHANGED appVars
    /\ UNCHANGED <<now, isInitialized, project, transport>>

ApiSetTempo ==
  \E bpm \in TempoInputs :
    /\ Commit(setTempo(World, bpm))
    /\ lastCall' = "other"
    /\ UNCHANGED <<previewed, calc, instruments>>
    /\ UNCHANGED appVars
    /\ UNCHANGED <<now, isInitialized, project, transport>>

ApiSetLoop ==
  \E a \in LoopArgs :
    /\ Commit(setLoop(World, a[1], a[2], a[3]))
    /\ lastCall' = "other"
    /\ UNCHANGED <<previewed, calc, instruments>>
    /\ UNCHANGED appVars
    /\ UNCHANGED <<now, isInitialized, project, transport>>

ApiStop == Stop

ApiPause == Pause

ApiTick == AdvanceClock(MaxApiTime)

ApiTimerFires == TimerFires

ApiFrameFires == FrameFires

NextApi ==
  \/ ApiStart
  \/ ApiSetTempo
  \/ ApiSetLoop
  \/ ApiStop
  \/ ApiPause
  \/ ApiTick
  \/ ApiTimerFires
  \/ ApiFrameFires

SpecApi == ApiInit /\ [][NextApi]_vars

\* ------------------------------------------- project store and LoopControls
\* The operations that change the project's tempo and loop region, each
\* followed by the watchers that hand the change to the scheduler. The loop
\* buttons that move the region to the right stop at MaxBeat.
StoreFiles ==
  { Project(300, 5, 3, TRUE, DEFAULT_TRACKS),
    Project(120, 4, 8, FALSE, DEFAULT_TRACKS) }

StoreInitialize == Initialize

StoreSetTempo ==
  \E t \in TempoInputs : StoreChange(storeSetTempo(project, t), "other")

ExtendLoop ==
  /\ project.loopEnd + 4 <= MaxBeat
  /\ StoreChange(setLoopRegion(project, project.loopStart,
                               project.loopEnd + 4), "other")

ShrinkLoop ==
  /\ project.loopEnd - project.loopStart > 4
  /\ StoreChange(setLoopRegion(project, project.loopStart,
                               project.loopEnd - 4), "other")

ShiftLoopLeft ==
  /\ project.loopStart >= 4
  /\ StoreChange(setLoopRegion(project, project.loopStart - 4,
                               project.loopEnd - 4), "other")

ShiftLoopRight ==
  /\ project.loopEnd + 4 <= MaxBeat
  /\ StoreChange(setLoopRegion(project, project.loopStart + 4,
                               project.loopEnd + 4), "other")

ToggleLoop ==
  StoreChange([project EXCEPT !.loopEnabled = ~project.loopEnabled], "other")

StoreLoadFromJSON ==
  \E f \in StoreFiles : StoreChange(loadFromJSON(project, f), "other")

NewProject == StoreChange(newProject(project), "other")

NextStore ==
  \/ StoreInitialize
  \/ StoreSetTempo
  \/ ExtendLoop
  \/ ShrinkLoop
  \/ ShiftLoopLeft
  \/ ShiftLoopRight
  \/ ToggleLoop
  \/ StoreLoadFromJSON
  \/ NewProject

SpecStore == Init /\ [][NextStore]_vars

\* ------------------------------------------------ mixing and previewing
\* One play() of a two-beat loop whose three tracks carry every mute/solo
\* combination: a lead, a drum track with a note on every pitch of the drum
\* table and on an unmapped one, and a track for which no instrument is
\* registered. Notes can be previewed at any time.
MixTracks(m, s) ==
  << [id |-> "lead", type |-> "synth",
      notes |-> << Note(69, 0, 1, 8000), Note(72, 1, 1, 10000) >>,
      muted |-> m[1], solo |-> s[1], volume |-> 8000],
     [id |-> "drums", type |-> "drums",
      notes |-> << Note(36, 0, 1, 10000), Note(38, 0, 1, 10000),
                   Note(42, 0, 1, 10000), Note(44, 0, 1, 10000),
                   Note(45, 1, 1, 10000), Note(46, 1, 1, 10000),
                   Note(47, 1, 1, 10000), Note(49, 1, 1, 10000),
                   Note(99, 1, 1, 10000) >>,
      muted |-> m[2], solo |-> s[2], volume |-> 10000],
     [id |-> "extra", type |-> "synth",
      notes |-> << Note(60, 0, 1, 10000) >>,
      muted |-> m[3], solo |-> s[3], volume |-> 10000] >>

MixProjects ==
  { Project(240, 0, 2, TRUE, MixTracks(m, s)) :
      m \in [1..3 -> BOOLEAN], s \in [1..3 -> BOOLEAN] }

PreviewPitches == {36, 38, 42, 44, 45, 46, 47, 49, 99}

MixInit ==
  /\ isPlaying = FALSE
  /\ currentBeat = 0
  /\ nextNoteTime = 0
  /\ tempo = 120
  /\ timerID = NULL
  /\ notesInQueue = <<>>
  /\ onBeatCallback = NoCallback
  /\ onVisualBeatCallback = NoCallback
  /\ loopStart = 0
  /\ loopEnd = 16
  /\ loopEnabled = TRUE
  /\ animationFrameId = NULL
  /\ now = 0
  /\ timers = {}
  /\ frames = {}
  /\ isInitialized = TRUE
  /\ project \in MixProjects
  /\ transport = [playbackState |-> "stopped", currentBeat |-> 0]
  /\ beatLog = <<>>
  /\ visLog = <<>>
  /\ voices = <<>>
  /\ resumes = 0
  /\ lastCall = "other"
  /\ previewed = NoPreview
  /\ calc = NoCalc
  /\ instruments = DEFAULT_INSTRUMENTS
  /\ history = NoHistory
  /\ engine = NoEngine
  /\ inFlight = NoneInFlight

MixPlay == transport.playbackState # "playing" /\ Play

MixTick == isPlaying /\ AdvanceClock(MaxMixTime)

MixTimerFires == TimerHandler

MixFrameFires == FrameFires

PreviewNote ==
  \E k \in DOMAIN project.tracks, pitch \in PreviewPitches :
    /\ previewed' = previewNote(project.tracks, project.tracks[k].id, pitch,
                                previewed)
    /\ lastCall' = "other"
    /\ UNCHANGED <<calc, instruments>>
    /\ UNCHANGED appVars
    /\ UNCHANGED <<schedVars, now, isInitialized, project, transport>>

NextMix ==
  \/ MixPlay
  \/ MixTick
  \/ MixTimerFires
  \/ MixFrameFires
  \/ PreviewNote

SpecMix == MixInit /\ [][NextMix]_vars

\* ----------------------------------------------------------- WAV encoding
\* DataView setters keep the low bits of the integer part of their argument.
\* Byte counts and rates here are non-negative and below 2^31, where the low
\* 32 bits are the number itself.
setUint32(v) == v

setUint16(v) == v % 65536

setInt16(v) == ((v + 32768) % 65536) - 32768

\* The integer part of num / SampleUnit, rounded toward zero.
ToInteger(num) ==
  IF num >= 0 THEN num \div SampleUnit ELSE -((-num) \div SampleUnit)

\* const sample = Math.max(-1, Math.min(1, x)); sample * 0x8000 or 0x7FFF,
\* as written by view.setInt16.
intSample_noClamp(x) ==
  LET sample == x
      scaled == IF sample < 0 THEN sample * 32768 ELSE sample * 32767
  IN setInt16(ToInteger(scaled))

intSample(x) ==
  LET sample == Max(-SampleUnit, Min(SampleUnit, x))
      scaled == IF sample < 0 THEN sample * 32768 ELSE sample * 32767
  IN setInt16(ToInteger(scaled))

\* The numeric fields of the 44-byte header, by what each setter stores.
wavHeader_riffLength(numChannels, length, sampleRate) ==
  LET format == 1
      bitDepth == 16
      bytesPerSample == bitDepth \div 8
      blockAlign == numChannels * bytesPerSample
      dataLength == length * blockAlign
      bufferLength == 44 + dataLength
  IN [riffSize |-> setUint32(bufferLength),
      fmtSize |-> setUint32(16),
      format |-> setUint16(format),
      numChannels |-> setUint16(numChannels),
      sampleRate |-> setUint32(sampleRate),
      byteRate |-> setUint32(sampleRate * blockAlign),
      blockAlign |-> setUint16(blockAlign),
      bitDepth |-> setUint16(bitDepth),
      dataLength |-> setUint32(dataLength),
      bufferLength |-> bufferLength]

wavHeader(numChannels, length, sampleRate) ==
  LET format == 1
      bitDepth == 16
      bytesPerSample == bitDepth \div 8
      blockAlign == numChannels * bytesPerSample
      dataLength == length * blockAlign
      bufferLength == 44 + dataLength
  IN [riffSize |-> setUint32(bufferLength - 8),
      fmtSize |-> setUint32(16),
      format |-> setUint16(format),
      numChannels |-> setUint16(numChannels),
      sampleRate |-> setUint32(sampleRate),
      byteRate |-> setUint32(sampleRate * blockAlign),
      blockAlign |-> setUint16(blockAlign),
      bitDepth |-> setUint16(bitDepth),
      dataLength |-> setUint32(dataLength),
      bufferLength |-> bufferLength]

\* The header and the 16-bit samples in the order of their byte offsets:
\* the outer loop runs over frames, the inner one over channels.
bufferToWav(buffer) ==
  LET numChannels == buffer.numberOfChannels
  IN [header |-> wavHeader(numChannels, buffer.length, buffer.sampleRate),
      samples |->
        [k \in 1..(buffer.length * numChannels) |->
           intSample(buffer.channels[((k - 1) % numChannels) + 1]
                                    [((k - 1) \div numChannels) + 1])]]

\* ------------------------------------------------ edits while the song plays
EditTracks ==
  << [id |-> "lead", type |-> "synth",
      notes |-> << Note(69, 0, 1, 8000), Note(72, 1, 1, 10000) >>,
      muted |-> FALSE, solo |-> FALSE, volume |-> 8000],
     [id |-> "drums", type |-> "drums",
      notes |-> << Note(36, 0, 1, 10000) >>,
      muted |-> FALSE, solo |-> FALSE, volume |-> 10000] >>

\* The grid cells clicked, the tracks muted and the gains set.
EditCells == { <<"lead", 0, 60>>, <<"lead", 0, 69>>, <<"bass", 0, 60>> }

EditGains == { 5000, 8000, 12000 }

EditInit ==
  /\ isPlaying = FALSE
  /\ currentBeat = 0
  /\ nextNoteTime = 0
  /\ tempo = 120
  /\ timerID = NULL
  /\ notesInQueue = <<>>
  /\ onBeatCallback = NoCallback
  /\ onVisualBeatCallback = NoCallback
  /\ loopStart = 0
  /\ loopEnd = 16
  /\ loopEnabled = TRUE
  /\ animationFrameId = NULL
  /\ now = 0
  /\ timers = {}
  /\ frames = {}
  /\ isInitialized = TRUE
  /\ project = Project(240, 0, 2, TRUE, EditTracks)
  /\ transport = [playbackState |-> "stopped", currentBeat |-> 0]
  /\ beatLog = <<>>
  /\ visLog = <<>>
  /\ voices = <<>>
  /\ resumes = 0
  /\ lastCall = "other"
  /\ previewed = NoPreview
  /\ calc = NoCalc
  /\ instruments = DEFAULT_INSTRUMENTS
  /\ history = NoHistory
  /\ engine = NoEngine
  /\ inFlight = NoneInFlight

EditPlay == transport.playbackState # "playing" /\ Play

EditTick == isPlaying /\ AdvanceClock(MaxEditTime)

EditTimerFires == TimerFires

ToggleNote ==
  \E c \in EditCells :
    StoreChange([project EXCEPT
                   !.tracks = toggleNote(@, c[1], c[2], c[3])], "other")

SetTrackMuted ==
  \E muted \in BOOLEAN :
    StoreChange([project EXCEPT
                   !.tracks = setTrackMuted(@, "lead", muted)], "other")

SetGain ==
  \E gain \in EditGains :
    /\ instruments' = setGain(instruments, "lead", gain)
    /\ instruments' # instruments
    /\ lastCall' = "other"
    /\ UNCHANGED <<previewed, calc>>
    /\ UNCHANGED appVars
    /\ UNCHANGED <<schedVars, now, isInitialized, project, transport>>

NextEdit ==
  \/ EditPlay
  \/ EditTick
  \/ EditTimerFires
  \/ ToggleNote
  \/ SetTrackMuted
  \/ SetGain

SpecEdit == EditInit /\ [][NextEdit]_vars

\* ------------------------------------------------------- undo and redo
\* A project as created and one loaded from a file whose tempo the store's
\* setter would not accept, and the history calls in any order; calc keeps
\* the last history call.
HistoryProjects ==
  { Project(120, 0, 16, TRUE, DEFAULT_TRACKS),
    loadFromJSON(Project(120, 0, 16, TRUE, DEFAULT_TRACKS),
                 Project(300, 0, 16, TRUE, DEFAULT_TRACKS)) }

HistoryInit ==
  /\ isPlaying = FALSE
  /\ currentBeat = 0
  /\ nextNoteTime = 0
  /\ tempo = 120
  /\ timerID = NULL
  /\ notesInQueue = <<>>
  /\ onBeatCallback = NoCallback
  /\ onVisualBeatCallback = NoCallback
  /\ loopStart = 0
  /\ loopEnd = 16
  /\ loopEnabled = TRUE
  /\ animationFrameId = NULL
  /\ now = 0
  /\ timers = {}
  /\ frames = {}
  /\ isInitialized = FALSE
  /\ project \in HistoryProjects
  /\ transport = [playbackState |-> "stopped", currentBeat |-> 0]
  /\ beatLog = <<>>
  /\ visLog = <<>>
  /\ voices = <<>>
  /\ resumes = 0
  /\ lastCall = "other"
  /\ previewed = NoPreview
  /\ calc = NoCalc
  /\ instruments = DEFAULT_INSTRUMENTS
  /\ history = NoHistory
  /\ engine = NoEngine
  /\ inFlight = NoneInFlight

HistoryCall(op, out) == [op |-> op, args |-> <<>>, done |-> TRUE, out |-> out]

HistoryStep(h, p, call) ==
  /\ history' = h
  /\ project' = p
  /\ calc' = call
  /\ UNCHANGED <<schedVars, now, isInitialized, transport, lastCall, previewed,
                 instruments, engine, inFlight>>

\* calc notes whether the push found the undo stack full.
PushState ==
  HistoryStep(pushState(history, project), project,
              HistoryCall("pushState",
                          [full |-> Len(history.undoStack) = MAX_HISTORY
                                      /\ ~history.isUndoRedoing]))

\* calc notes what undo returned and what it found: the project's snapshot
\* and the sizes of the two stacks.
Undo ==
  LET r == undo(history, project)
  IN HistoryStep(r.history, r.project,
                 HistoryCall("undo",
                             [result |-> r.result,
                              snapshot |-> getSnapshot(project),
                              undoSize |-> Len(history.undoStack),
                              redoSize |-> Len(history.redoStack)]))

Redo ==
  LET r == redo(history, project)
  IN HistoryStep(r.history, r.project,
                 HistoryCall("redo", [result |-> r.result]))

\* setTimeout(() => { isUndoRedoing.value = false }, 0)
HistoryTimeout ==
  /\ history.isUndoRedoing
  /\ history' = [history EXCEPT !.isUndoRedoing = FALSE]
  /\ UNCHANGED <<schedVars, now, isInitialized, project, transport, lastCall,
                 previewed, calc, instruments, engine, inFlight>>

NextHistory ==
  \/ PushState
  \/ Undo
  \/ Redo
  \/ HistoryTimeout

SpecHistory == HistoryInit /\ [][NextHistory]_vars

\* ------------------------------------ Scheduler: one tick, step by step
\* schedule() one loop iteration at a time, for the tempos a project file
\* can carry: loadFromJSON stores the file's tempo as it is and play() hands
\* it to start(). calc holds the running call of schedule() and who made it.
StepTempos == {-120, 0, 120, 240, 300}

StepProjects ==
  { loadFromJSON(Project(120, 0, 16, TRUE, DEFAULT_TRACKS),
                 Project(t, 0, 16, TRUE, DEFAULT_TRACKS)) : t \in StepTempos }

\* The last MaxStepLog entries of a log.
Recent(s) ==
  IF Len(s) > MaxStepLog THEN SubSeq(s, Len(s) - MaxStepLog + 1, Len(s)) ELSE s

\* The loop of schedule() reads nextNoteTime only to compare it with
\* currentTime + SCHEDULE_AHEAD_SEC: every time below -MaxStepDepth compares
\* like -MaxStepDepth and every time above Infinity like Infinity. It does
\* not read the queue or the logs, of which the most recent entries are kept.
Fold(w) ==
  [w EXCEPT !.nextNoteTime = Max(-MaxStepDepth, Min(Infinity, @)),
            !.notesInQueue = Recent(@),
            !.beatLog = Recent(@)]

StepInit ==
  /\ isPlaying = FALSE
  /\ currentBeat = 0
  /\ nextNoteTime = 0
  /\ tempo = 120
  /\ timerID = NULL
  /\ notesInQueue = <<>>
  /\ onBeatCallback = NoCallback
  /\ onVisualBeatCallback = NoCallback
  /\ loopStart = 0
  /\ loopEnd = 16
  /\ loopEnabled = TRUE
  /\ animationFrameId = NULL
  /\ now = 0
  /\ timers = {}
  /\ frames = {}
  /\ isInitialized = TRUE
  /\ project \in StepProjects
  /\ transport = [playbackState |-> "stopped", currentBeat |-> 0]
  /\ beatLog = <<>>
  /\ visLog = <<>>
  /\ voices = <<>>
  /\ resumes = 0
  /\ lastCall = "other"
  /\ previewed = NoPreview
  /\ calc = NoCalc
  /\ instruments = DEFAULT_INSTRUMENTS
  /\ history = NoHistory
  /\ engine = NoEngine
  /\ inFlight = NoneInFlight

StepRest ==
  /\ UNCHANGED <<now, isInitialized, project, lastCall, previewed, instruments>>
  /\ UNCHANGED appVars

\* play(): stop(), setLoop(), then start() as far as its call of schedule().
StepPlay ==
  /\ calc.done
  /\ Commit(startBegin(setLoop(stop(World), project.loopStart,
                               project.loopEnd, project.loopEnabled),
                       now, project.tempo, PlayStartBeat))
  /\ calc' = Call("schedule", <<"start">>)
  /\ UNCHANGED transport
  /\ StepRest

\* The setTimeout callback: schedule() is entered.
StepTimerFires ==
  /\ calc.done
  /\ \E h \in timers : Commit([World EXCEPT !.timers = @ \ {h}])
  /\ calc' = Call("schedule", <<"timer">>)
  /\ UNCHANGED transport
  /\ StepRest

\* One pass through the body of the while loop.
StepIterate ==
  /\ calc.op = "schedule"
  /\ ~calc.done
  /\ isPlaying
  /\ nextNoteTime < now + SCHEDULE_AHEAD_SEC
  /\ Commit(Fold(advanceNote(scheduleNote(World, currentBeat, nextNoteTime,
                                          project.tracks))))
  /\ UNCHANGED <<calc, transport>>
  /\ StepRest

\* The loop condition is false (or the scheduler is not playing): the next
\* timer is set and schedule() returns; start() goes on to
\* startVisualUpdater() and play() to transportStore.play().
StepExit ==
  /\ calc.op = "schedule"
  /\ ~calc.done
  /\ ~isPlaying \/ ~(nextNoteTime < now + SCHEDULE_AHEAD_SEC)
  /\ LET h == FreshHandle(timers)
         w1 == IF isPlaying
               THEN [World EXCEPT !.timerID = h, !.timers = @ \cup {h}]
               ELSE World
     IN Commit(IF calc.args[1] = "start" THEN startVisualUpdater(w1) ELSE w1)
  /\ transport' = IF calc.args[1] = "start"
                  THEN [transport EXCEPT !.playbackState = "playing"]
                  ELSE transport
  /\ calc' = [calc EXCEPT !.done = TRUE]
  /\ StepRest

StepSetTempo ==
  /\ calc.done
  /\ isPlaying
  /\ \E bpm \in StepTempos : Commit(setTempo(World, bpm))
  /\ UNCHANGED <<calc, transport>>
  /\ StepRest

StepStop ==
  /\ calc.done
  /\ isPlaying
  /\ Commit(stop(World))
  /\ transport' = [playbackState |-> "stopped", currentBeat |-> 0]
  /\ UNCHANGED calc
  /\ StepRest

StepClock == calc.done /\ AdvanceClock(MaxStepTime)

NextStep ==
  \/ StepPlay
  \/ StepTimerFires
  \/ StepIterate
  \/ StepExit
  \/ StepSetTempo
  \/ StepStop
  \/ StepClock

SpecStep == StepInit /\ [][NextStep]_vars

\* The JavaScript thread runs a call of schedule() to its end: whichever of
\* the loop body and the loop exit is possible is eventually taken.
SpecStepFair == SpecStep /\ WF_vars(StepIterate) /\ WF_vars(StepExit)

\* ------------------------------------------------ AudioEngine.initialize
\* The objects the engine has created so far are counted; state is the state
\* of its AudioContext, resumeCalls the number of context.resume() calls,
\* awaitingResume and awaitingPlain the initialize() calls suspended at an
\* await with and without a pending context.resume(), calls the number of
\* initialize() calls made and isReady the flag of useAudioEngine.

\* AudioEngine.resume() up to its await.
engineResume(e) ==
  IF e.state = "suspended"
  THEN [e EXCEPT !.resumeCalls = @ + 1, !.awaitingResume = @ + 1]
  ELSE [e EXCEPT !.awaitingPlain = @ + 1]

initialize_noGuard(e, initialized, fresh) ==
  LET e1 == [e EXCEPT !.contexts = @ + 1, !.buses = @ + 1,
                      !.oscillators = @ + 1, !.schedulers = @ + 1,
                      !.state = fresh]
  IN [engine |-> engineResume(e1), isInitialized |-> TRUE]

\* AudioEngine.initialize() up to its first await; fresh is the state in
\* which the browser creates the AudioContext.
initialize(e, initialized, fresh) ==
  IF initialized
  THEN [engine |-> engineResume(e), isInitialized |-> initialized]
  ELSE LET e1 == [e EXCEPT !.contexts = @ + 1, !.buses = @ + 1,
                           !.oscillators = @ + 1, !.schedulers = @ + 1,
                           !.state = fresh]
       IN [engine |-> engineResume(e1), isInitialized |-> TRUE]

EngineInit ==
  /\ isPlaying = FALSE
  /\ currentBeat = 0
  /\ nextNoteTime = 0
  /\ tempo = 120
  /\ timerID = NULL
  /\ notesInQueue = <<>>
  /\ onBeatCallback = NoCallback
  /\ onVisualBeatCallback = NoCallback
  /\ loopStart = 0
  /\ loopEnd = 16
  /\ loopEnabled = TRUE
  /\ animationFrameId = NULL
  /\ now = 0
  /\ timers = {}
  /\ frames = {}
  /\ isInitialized = FALSE
  /\ project = Project(120, 0, 16, TRUE, DEFAULT_TRACKS)
  /\ transport = [playbackState |-> "stopped", currentBeat |-> 0]
  /\ beatLog = <<>>
  /\ visLog = <<>>
  /\ voices = <<>>
  /\ resumes = 0
  /\ lastCall = "other"
  /\ previewed = NoPreview
  /\ calc = NoCalc
  /\ instruments = DEFAULT_INSTRUMENTS
  /\ history = NoHistory
  /\ engine = NoEngine
  /\ inFlight = NoneInFlight

EngineRest ==
  UNCHANGED <<schedVars, now, project, transport, lastCall, previewed, calc,
              instruments, history, inFlight>>

\* A call of initialize(), by handleUserGesture or by play(), whether or not
\* earlier calls are still awaiting.
EngineInitialize ==
  /\ engine.calls < MaxEngineCalls
  /\ \E fresh \in {"suspended", "running"} :
       LET r == initialize(engine, isInitialized, fresh)
       IN /\ engine' = [r.engine EXCEPT !.calls = @ + 1]
          /\ isInitialized' = r.isInitialized
  /\ EngineRest

\* context.resume() resolves: the context runs and the awaiting call goes
\* on; under useAudioEngine.initialize it sets isReady.
EngineResumed ==
  /\ engine.awaitingResume > 0
  /\ engine' = [engine EXCEPT !.awaitingResume = @ - 1, !.state = "running",
                              !.isReady = TRUE]
  /\ UNCHANGED isInitialized
  /\ EngineRest

\* A call that had nothing to wait for goes on.
EngineReturns ==
  /\ engine.awaitingPlain > 0
  /\ engine' = [engine EXCEPT !.awaitingPlain = @ - 1, !.isReady = TRUE]
  /\ UNCHANGED isInitialized
  /\ EngineRest

\* The browser suspends a running context.
EngineSuspended ==
  /\ engine.state = "running"
  /\ engine.awaitingResume = 0
  /\ engine' = [engine EXCEPT !.state = "suspended"]
  /\ UNCHANGED isInitialized
  /\ EngineRest

NextEngine ==
  \/ EngineInitialize
  \/ EngineResumed
  \/ EngineReturns
  \/ EngineSuspended

SpecEngine == EngineInit /\ [][NextEngine]_vars

\* ------------------------------------------- usePlayback: async play()
\* play() awaits twice before it touches the scheduler: initialize() when
\* the engine is not ready, then engine.resume(). inFlight counts the play()
\* calls suspended at each await and keeps the last operation called; pause()
\* and stop() run to their end at once. The context is created running, as
\* after a user gesture.
AsyncInit ==
  /\ isPlaying = FALSE
  /\ currentBeat = 0
  /\ nextNoteTime = 0
  /\ tempo = 120
  /\ timerID = NULL
  /\ notesInQueue = <<>>
  /\ onBeatCallback = NoCallback
  /\ onVisualBeatCallback = NoCallback
  /\ loopStart = 0
  /\ loopEnd = 16
  /\ loopEnabled = TRUE
  /\ animationFrameId = NULL
  /\ now = 0
  /\ timers = {}
  /\ frames = {}
  /\ isInitialized = FALSE
  /\ project = Project(120, 0, 16, TRUE, DEFAULT_TRACKS)
  /\ transport = [playbackState |-> "stopped", currentBeat |-> 0]
  /\ beatLog = <<>>
  /\ visLog = <<>>
  /\ voices = <<>>
  /\ resumes = 0
  /\ lastCall = "other"
  /\ previewed = NoPreview
  /\ calc = NoCalc
  /\ instruments = DEFAULT_INSTRUMENTS
  /\ history = NoHistory
  /\ engine = NoEngine
  /\ inFlight = NoneInFlight

AsyncRest ==
  UNCHANGED <<now, project, lastCall, previewed, calc, instruments, history>>

\* play() up to its first await.
playBegin ==
  /\ inFlight.initializing + inFlight.resuming < MaxInFlight
  /\ IF ~engine.isReady
     THEN LET r == initialize(engine, isInitialized, "running")
          IN /\ engine' = r.engine
             /\ isInitialized' = r.isInitialized
             /\ inFlight' = [inFlight EXCEPT !.initializing = @ + 1,
                                             !.last = "play"]
     ELSE /\ engine' = engineResume(engine)
          /\ UNCHANGED isInitialized
          /\ inFlight' = [inFlight EXCEPT !.resuming = @ + 1, !.last = "play"]
  /\ UNCHANGED <<schedVars, transport>>

\* pause() of usePlayback; the scheduler getter throws before initialize().
playbackPause ==
  /\ IF isInitialized
     THEN /\ Commit(pause(World))
          /\ transport' = [transport EXCEPT !.playbackState = "paused"]
     ELSE UNCHANGED <<schedVars, transport>>
  /\ inFlight' = [inFlight EXCEPT !.last = "pause"]
  /\ UNCHANGED <<engine, isInitialized>>

AsyncPlay == playBegin /\ AsyncRest

\* initialize() of useAudioEngine returns to play(), which awaits
\* engine.resume().
AsyncInitialized ==
  /\ inFlight.initializing > 0
  /\ engine' = engineResume([engine EXCEPT !.awaitingPlain = @ - 1,
                                           !.isReady = TRUE])
  /\ inFlight' = [inFlight EXCEPT !.initializing = @ - 1, !.resuming = @ + 1]
  /\ UNCHANGED <<schedVars, transport, isInitialized>>
  /\ AsyncRest

\* engine.resume() returns to play(): the rest of play() runs.
AsyncContinue ==
  /\ inFlight.resuming > 0
  /\ engine' = [engine EXCEPT !.awaitingPlain = @ - 1]
  /\ inFlight' = [inFlight EXCEPT !.resuming = @ - 1]
  /\ Commit(playBody)
  /\ transport' = [transport EXCEPT !.playbackState = "playing"]
  /\ UNCHANGED isInitialized
  /\ AsyncRest

AsyncPause == playbackPause /\ AsyncRest

AsyncStop ==
  /\ IF isInitialized
     THEN /\ Commit(stop(World))
          /\ transport' = [playbackState |-> "stopped", currentBeat |-> 0]
     ELSE UNCHANGED <<schedVars, transport>>
  /\ inFlight' = [inFlight EXCEPT !.last = "stop"]
  /\ UNCHANGED <<engine, isInitialized>>
  /\ AsyncRest

\* toggle(): the scheduler getter throws before initialize(); otherwise
\* pause() when either side says playing, play() when neither does.
AsyncToggle ==
  /\ isInitialized
  /\ IF transport.playbackState = "playing" \/ isPlaying
     THEN playbackPause
     ELSE playBegin
  /\ AsyncRest

AsyncTick == AdvanceClock(MaxAsyncTime)

NextAsync ==
  \/ AsyncPlay
  \/ AsyncInitialized
  \/ AsyncContinue
  \/ AsyncPause
  \/ AsyncStop
  \/ AsyncToggle
  \/ AsyncTick
  \/ TimerFires
  \/ FrameFires

SpecAsync == AsyncInit /\ [][NextAsync]_vars

\* ------------------------------------------- AudioEngine: calls and guards
\* The calls the composables make on the engine. context, masterGain,
\* oscillator and _scheduler are all created by initialize() and by nothing
\* else, so each guard is a test of initialized.
EngineOps ==
  {"scheduler", "setMasterVolume", "playNote", "playDrum", "playBeat",
   "previewNote", "previewDrum"}

\* What a call does: "threw" for a thrown Error, "ignored" for a return
\* before any effect, "done" otherwise; and whether the engine is initialized
\* afterwards.
engineCall(op, initialized) ==
  [initialized |-> initialized,
   outcome |->
     CASE op = "scheduler" -> IF ~initialized THEN "threw" ELSE "done"
       [] op = "setMasterVolume" -> IF initialized THEN "done" ELSE "ignored"
       [] op = "playNote" -> IF ~initialized THEN "ignored" ELSE "done"
       [] op = "playDrum" -> IF ~initialized THEN "ignored" ELSE "done"
       [] op = "playBeat" -> IF ~initialized THEN "ignored" ELSE "done"
       [] op = "previewNote" -> IF ~initialized THEN "ignored" ELSE "done"
       [] op = "previewDrum" -> IF ~initialized THEN "ignored" ELSE "done",
   initializedAfter |-> initialized]

\* --------------------------------------------- single calls, one at a time
\* One call of a function of the audio core on arguments drawn from bounded
\* sets: the call waits in calc until its action makes it and stores the
\* result.

EnvelopeCalls ==
  { Call("applyADSR", <<st, d, a, dc, r>>) :
      st \in {0, 2}, d \in 0..MaxEnv, a \in 0..MaxEnv, dc \in 0..MaxEnv,
      r \in 0..MaxEnv }

\* One pitched or noise voice: its envelope and the time its source stops.
PlayNoteCalls ==
  { Call("oscillator.playNote", <<st, d, a, dc, r>>) :
      st \in {0, 2}, d \in 1..MaxEnv, a \in 0..MaxEnv, dc \in 0..MaxEnv,
      r \in 0..MaxEnv }

PulseCalls == { Call("getPulseWave", <<d>>) : d \in 0..MaxDuty }

\* Sample values below, at, inside and above the range [-1, 1].
SampleInputs == <<-5, -4, -1, 0, 1, 4, 5>>

\* An AudioBuffer whose samples walk through SampleInputs from seed on.
AudioBuffer(numChannels, length, sampleRate, seed) ==
  [numberOfChannels |-> numChannels, length |-> length,
   sampleRate |-> sampleRate,
   channels |->
     [ch \in 1..numChannels |->
        [i \in 1..length |->
           SampleInputs[((seed + (i - 1) * numChannels + (ch - 1))
                          % Len(SampleInputs)) + 1]]]]

WavCalls ==
  { Call("bufferToWav", <<AudioBuffer(c, n, r, seed)>>) :
      c \in 1..MaxChannels, n \in 0..MaxFrames, r \in {8000, 44100},
      seed \in 0..(Len(SampleInputs) - 1) }

\* A song for the export dialog: a lead note of every length at every beat,
\* a second lead note, two drum hits and a track without instrument.
RenderTracks(b, d, m) ==
  << [id |-> "lead", type |-> "synth",
      notes |-> << Note(69, b, d, 8000), Note(72, 0, 1, 10000) >>,
      muted |-> m, solo |-> FALSE, volume |-> 8000],
     [id |-> "drums", type |-> "drums",
      notes |-> << Note(36, 1, 1, 10000), Note(49, 2, 1, 10000) >>,
      muted |-> FALSE, solo |-> FALSE, volume |-> 10000],
     [id |-> "extra", type |-> "synth",
      notes |-> << Note(60, 0, 1, 10000) >>,
      muted |-> FALSE, solo |-> FALSE, volume |-> 10000] >>

RenderCalls ==
  { Call("renderToWav", <<Project(t, r[1], r[2], TRUE, RenderTracks(b, d, m))>>) :
      t \in {120, 240}, r \in {<<0, 4>>, <<1, 3>>}, b \in 0..3,
      d \in 1..MaxDuration, m \in BOOLEAN }

EngineCalls == { Call(op, <<>>) : op \in EngineOps }

UnitCalls ==
  EnvelopeCalls \cup PlayNoteCalls \cup PulseCalls \cup WavCalls
    \cup RenderCalls \cup EngineCalls

UnitInit ==
  /\ isPlaying = FALSE
  /\ currentBeat = 0
  /\ nextNoteTime = 0
  /\ tempo = 120
  /\ timerID = NULL
  /\ notesInQueue = <<>>
  /\ onBeatCallback = NoCallback
  /\ onVisualBeatCallback = NoCallback
  /\ loopStart = 0
  /\ loopEnd = 16
  /\ loopEnabled = TRUE
  /\ animationFrameId = NULL
  /\ now = 0
  /\ timers = {}
  /\ frames = {}
  /\ isInitialized = FALSE
  /\ project = Project(120, 0, 16, TRUE, DEFAULT_TRACKS)
  /\ transport = [playbackState |-> "stopped", currentBeat |-> 0]
  /\ beatLog = <<>>
  /\ visLog = <<>>
  /\ voices = <<>>
  /\ resumes = 0
  /\ lastCall = "other"
  /\ previewed = NoPreview
  /\ calc \in UnitCalls
  /\ instruments = DEFAULT_INSTRUMENTS
  /\ history = NoHistory
  /\ engine = NoEngine
  /\ inFlight = NoneInFlight

Returns(out) ==
  /\ calc' = [calc EXCEPT !.done = TRUE, !.out = out]
  /\ UNCHANGED <<schedVars, now, isInitialized, project, transport, lastCall,
                 previewed, instruments>>
  /\ UNCHANGED appVars

ApplyADSR ==
  /\ calc.op = "applyADSR"
  /\ ~calc.done
  /\ LET a == calc.args
     IN Returns([live |-> applyADSR(a[1], a[2], a[3], a[4], a[5]),
                 offline |-> renderApplyADSR(a[1], a[2], a[3], a[4], a[5])])

PlayNote ==
  /\ calc.op = "oscillator.playNote"
  /\ ~calc.done
  /\ LET a == calc.args
     IN Returns([live |->
                   [envelope |-> applyADSR(a[1], a[2], a[3], a[4], a[5]),
                    stop |-> playNoteStop(a[1], a[2], a[5])],
                 offline |->
                   [envelope |-> renderApplyADSR(a[1], a[2], a[3], a[4], a[5]),
                    stop |-> scheduleNoteStop(a[1], a[2], a[5])]])

GetPulseWave ==
  /\ calc.op = "getPulseWave"
  /\ ~calc.done
  /\ Returns([live |-> getPulseWave(calc.args[1]),
              offline |-> renderGetPulseWave(calc.args[1])])

BufferToWav ==
  /\ calc.op = "bufferToWav"
  /\ ~calc.done
  /\ Returns(bufferToWav(calc.args[1]))

RenderToWav ==
  /\ calc.op = "renderToWav"
  /\ ~calc.done
  /\ LET p == calc.args[1]
         rendered == renderToWav(p.tracks, p.tempo, p.loopStart, p.loopEnd)
     IN Returns([voices |-> rendered,
                 stops |-> [k \in DOMAIN rendered |->
                              IF rendered[k].drum = "none"
                              THEN renderStopTime(rendered[k]) ELSE NULL],
                 duration |-> renderDuration(p.tempo, p.loopStart, p.loopEnd),
                 progress |-> renderProgress(p.tracks, p.tempo, p.loopStart,
                                             p.loopEnd)])

EngineCall ==
  /\ calc.op \in EngineOps
  /\ ~calc.done
  /\ LET r == engineCall(calc.op, isInitialized)
     IN /\ calc' = [calc EXCEPT !.done = TRUE, !.out = r]
        /\ isInitialized' = r.initializedAfter
  /\ UNCHANGED <<schedVars, now, project, transport, lastCall, previewed,
                 instruments>>
  /\ UNCHANGED appVars

UnitInitialize == Initialize

NextUnit ==
  \/ UnitInitialize
  \/ EngineCall
  \/ ApplyADSR
  \/ PlayNote
  \/ RenderToWav
  \/ GetPulseWave
  \/ BufferToWav

SpecUnit == UnitInit /\ [][NextUnit]_vars

\* ------------------------------------------------------------ properties
Pair(e) == <<e.beat, e.time>>

Pairs(q) == [i \in 1..Len(q) |-> Pair(q[i])]

SeqToBag(q) ==
  [x \in {q[i] : i \in 1..Len(q)} |-> Cardinality({i \in 1..Len(q) : q[i] = x})]

\* C1: a start() call made while the scheduler is playing changes neither
\* tempo, currentBeat, nextNoteTime, the pending-visual queue, the callbacks
\* nor the number of pending scheduling timers and animation frames.
C1_StartWhilePlayingIsNoOp ==
  [][(isPlaying /\ lastCall' = "startWhilePlaying") =>
       /\ isPlaying'
       /\ tempo' = tempo
       /\ currentBeat' = currentBeat
       /\ nextNoteTime' = nextNoteTime
       /\ notesInQueue' = notesInQueue
       /\ onBeatCallback' = onBeatCallback
       /\ onVisualBeatCallback' = onVisualBeatCallback
       /\ Cardinality(timers') = Cardinality(timers)
       /\ Cardinality(frames') = Cardinality(frames)]_vars

C1_Witness ==
  /\ lastCall = "startWhilePlaying"
  /\ isPlaying
  /\ Len(notesInQueue) > 0
  /\ Cardinality(timers) = 1
  /\ transport.currentBeat # currentBeat

\* C2: with looping enabled and playback started at loopStart, after k beat
\* advances currentBeat = loopStart + (k mod (loopEnd - loopStart)); with
\* the loop [0, 16) 16 advances give 0 and 17 advances give 1.
StartedAtLoopStart ==
  /\ Len(beatLog) > 0
  /\ loopEnabled
  /\ loopEnd > loopStart
  /\ beatLog[1].beat = loopStart

C2_LoopPosition ==
  StartedAtLoopStart =>
    /\ currentBeat = loopStart + (Len(beatLog) % (loopEnd - loopStart))
    /\ (loopStart = 0 /\ loopEnd = 16 /\ Len(beatLog) = 16) => currentBeat = 0
    /\ (loopStart = 0 /\ loopEnd = 16 /\ Len(beatLog) = 17) => currentBeat = 1

C2_Witness ==
  /\ StartedAtLoopStart
  /\ loopStart = 0
  /\ loopEnd = 16
  /\ Len(beatLog) = 17
  /\ currentBeat = 1

\* C3: while playing with looping enabled, once one beat advance has
\* happened since playback started, loopStart <= currentBeat < loopEnd
\* (here for the startBeat play() passes, with the loop region unchanged
\* since the session's first beat).
LoopUnchangedInSession ==
  \A i \in 1..Len(beatLog) :
    /\ beatLog[i].loopStart = loopStart
    /\ beatLog[i].loopEnd = loopEnd
    /\ beatLog[i].loopEnabled = loopEnabled

C3_CurrentBeatInLoop ==
  (isPlaying /\ loopEnabled /\ Len(beatLog) > 0 /\ LoopUnchangedInSession
   /\ transport.playbackState = "playing") =>
    (loopStart <= currentBeat /\ currentBeat < loopEnd)

\* C4: a note becomes a voice only if its startBeat lies in
\* [loopStart, loopEnd) at the time it is scheduled, in live playback and in
\* the offline rendering of the same project.
C4_VoicesInsideLoop ==
  /\ \A i \in 1..Len(voices) :
       LET e == beatLog[voices[i].call]
       IN e.loopStart <= voices[i].v.startBeat
          /\ voices[i].v.startBeat < e.loopEnd
  /\ LET r == renderToWav(project.tracks, project.tempo, project.loopStart,
                          project.loopEnd)
     IN \A i \in 1..Len(r) :
          project.loopStart <= r[i].startBeat /\ r[i].startBeat < project.loopEnd

\* C5: for one pass of the loop started at loopStart, live playback and
\* renderToWav dispatch the same multiset of (pitch, time relative to the
\* start of the pass, gain).
Triple(v, t0) == <<v.pitch, v.time - t0, v.gain>>

LiveTriples == [i \in 1..Len(voices) |-> Triple(voices[i].v, beatLog[1].time)]

OfflineTriples ==
  LET r == renderToWav(project.tracks, project.tempo, project.loopStart,
                       project.loopEnd)
  IN [i \in 1..Len(r) |-> Triple(r[i], 0)]

C5_LiveOfflineParity ==
  (StartedAtLoopStart /\ Len(beatLog) = loopEnd - loopStart) =>
    SeqToBag(LiveTriples) = SeqToBag(OfflineTriples)

\* C6: the peak gain of every voice played live on a synth track is
\* config.gain * track.volume * note.velocity, velocity applied once.
C6_SynthGain ==
  \A i \in 1..Len(voices) :
    LET v == voices[i].v
    IN v.drum = "none" =>
         v.gain = FMul(FMul(instruments[v.track].gain, v.volume), v.velocity)

\* C7 (as stated): within a play session every beat passed to beatCallback
\* is strictly greater than the one passed before it.
C7_StrictlyIncreasingBeats ==
  \A i \in 1..(Len(beatLog) - 1) : beatLog[i + 1].beat > beatLog[i].beat

\* C7 (amended): within a play session every beat passed to beatCallback is
\* the previous one plus 1, except that when looping is enabled and the
\* previous one plus 1 reaches loopEnd it is loopStart.
C7_BeatsFollowLoopOrder ==
  \A i \in 1..(Len(beatLog) - 1) :
    LET e == beatLog[i]
    IN beatLog[i + 1].beat =
         IF e.loopEnabled /\ e.beat + 1 >= e.loopEnd
         THEN e.loopStart ELSE e.beat + 1

C7_Witness ==
  /\ Len(beatLog) >= 3
  /\ \E i \in 1..(Len(beatLog) - 1) : beatLog[i + 1].beat < beatLog[i].beat
  /\ \E i \in 1..(Len(beatLog) - 1) : beatLog[i + 1].beat = beatLog[i].beat + 1

\* C8 (as stated): every beat passed to beatCallback is later passed to the
\* visual callback: a beat waiting in the pending-visual queue either stays
\* there or is passed to the visual callback, whatever call comes next.
C8_NoPendingBeatLost ==
  [][onVisualBeatCallback # NoCallback =>
       \A i \in 1..Len(notesInQueue) :
         \/ \E j \in 1..Len(notesInQueue') : notesInQueue'[j] = notesInQueue[i]
         \/ \E j \in (Len(visLog) + 1)..Len(visLog') :
              visLog'[j] = notesInQueue[i]]_vars

\* C8 (amended): within a play session, from start() to the next stop() or
\* start(), the beats passed to the visual callback followed by the beats
\* still pending are exactly the beats passed to beatCallback, in that
\* order: each is delivered at most once, in FIFO order, and the beats still
\* pending when stop() or start() empties the queue are never delivered.
C8_DeliveredThenPendingIsDispatched ==
  onBeatCallback # NoCallback =>
    Pairs(visLog) \o Pairs(notesInQueue) = Pairs(beatLog)

C8_Witness ==
  /\ Len(visLog) >= 2
  /\ Len(notesInQueue) >= 1
  /\ resumes > 0

\* C9: the visual callback for a beat fires only once the audio clock has
\* passed the beat's scheduled time.
C9_VisualNotBeforeAudio ==
  \A i \in 1..Len(visLog) : visLog[i].time < now

C9_Witness ==
  /\ Len(visLog) >= 2
  /\ visLog[Len(visLog)].time + 1 = now

\* C10: while the scheduler is not playing no scheduling timer and no
\* animation frame is pending, and no step that leaves it not playing
\* invokes beatCallback or the visual callback.
C10_QuietWhenNotPlaying ==
  /\ [](~isPlaying => (timers = {} /\ frames = {}))
  /\ [][~isPlaying' =>
          (Len(beatLog') <= Len(beatLog) /\ Len(visLog') <= Len(visLog))]_vars

C10_Witness ==
  /\ ~isPlaying
  /\ Len(notesInQueue) > 0
  /\ Len(visLog) > 0
  /\ nextNoteTime > now

\* C11: stop(), from whatever state it is called in, leaves the scheduler
\* not playing, with an empty pending-visual queue and currentBeat = 0 (and
\* with no scheduling timer or animation frame of its own pending).
C11_StopResets ==
  [][Stop => /\ ~isPlaying'
             /\ notesInQueue' = <<>>
             /\ currentBeat' = 0
             /\ timerID' = NULL
             /\ animationFrameId' = NULL]_vars

C11_Witness ==
  /\ transport.playbackState = "stopped"
  /\ onBeatCallback # NoCallback
  /\ ~isPlaying
  /\ currentBeat = 0
  /\ notesInQueue = <<>>
  /\ now > 0

\* C12: pause() leaves currentBeat, nextNoteTime and the pending-visual
\* queue unchanged; a resume() of a scheduler that is not playing dispatches
\* first the preserved currentBeat, at the current audio-clock time, and
\* keeps the entries that were pending.
C12_PauseKeepsResumeContinues ==
  /\ [][Pause => /\ currentBeat' = currentBeat
                 /\ notesInQueue' = notesInQueue
                 /\ nextNoteTime' = nextNoteTime
                 /\ ~isPlaying']_vars
  /\ [][(Resume /\ ~isPlaying /\ onBeatCallback # NoCallback) =>
          /\ isPlaying'
          /\ Len(beatLog') > Len(beatLog)
          /\ beatLog'[Len(beatLog) + 1].beat = currentBeat
          /\ beatLog'[Len(beatLog) + 1].time = now
          /\ Len(notesInQueue') > Len(notesInQueue)
          /\ SubSeq(notesInQueue', 1, Len(notesInQueue)) = notesInQueue
          /\ nextNoteTime' >= now + SCHEDULE_AHEAD_SEC]_vars

C12_Witness ==
  /\ resumes > 0
  /\ isPlaying
  /\ Len(notesInQueue) >= 2
  /\ \E i \in 1..(Len(beatLog) - 1) :
       /\ beatLog[i + 1].beat = beatLog[i].beat + 1
       /\ beatLog[i + 1].time = now
       /\ beatLog[i + 1].time < beatLog[i].time + SecondsPer16th(tempo)

\* C13: the scheduler starts playing only by start() or by a resume() made
\* while Paused, and stops playing only by pause() or stop(); a resume()
\* made while Stopped (never started, or stopped last) does not start
\* playback. The scheduler is Stopped when it is not playing and the last
\* transport call was stop() or none, Paused when it is not playing and the
\* last transport call was pause().
Stopped == ~isPlaying /\ transport.playbackState = "stopped"

Paused == ~isPlaying /\ transport.playbackState = "paused"

C13_StateMachine ==
  [][/\ (~isPlaying /\ isPlaying') => (Play \/ (Resume /\ Paused))
     /\ (isPlaying /\ ~isPlaying') => (Pause \/ Stop)
     /\ (Resume /\ Stopped) => ~isPlaying']_vars

\* C14: setTempo() and setLoop() leave currentBeat, nextNoteTime, isPlaying
\* and every entry of the pending-visual queue unchanged and invoke no
\* callback; the scheduling tick that follows dispatches the preserved
\* currentBeat first, at the preserved nextNoteTime, and advances by the
\* 16th-note length of the tempo in force at that tick.
C14_NotRetroactive ==
  /\ [][(ApiSetTempo \/ ApiSetLoop) =>
          /\ currentBeat' = currentBeat
          /\ nextNoteTime' = nextNoteTime
          /\ isPlaying' = isPlaying
          /\ notesInQueue' = notesInQueue
          /\ beatLog' = beatLog
          /\ visLog' = visLog]_vars
  /\ [][(ApiTimerFires /\ isPlaying) =>
          LET k == Len(notesInQueue') - Len(notesInQueue)
          IN /\ k >= 0
             /\ SubSeq(notesInQueue', 1, Len(notesInQueue)) = notesInQueue
             /\ k > 0 => notesInQueue'[Len(notesInQueue) + 1] =
                           [beat |-> currentBeat, time |-> nextNoteTime]
             /\ nextNoteTime' = nextNoteTime + k * SecondsPer16th(tempo)]_vars

C14_Witness ==
  /\ isPlaying
  /\ tempo = 40
  /\ Len(notesInQueue) >= 3
  /\ notesInQueue[2].time - notesInQueue[1].time = SecondsPer16th(300)
  /\ nextNoteTime =
       notesInQueue[Len(notesInQueue)].time + SecondsPer16th(40)

\* C15: whatever start() and setTempo() calls were made, the scheduler's
\* tempo lies in [40, 240].
C15_TempoInRange == 40 <= tempo /\ tempo <= 240

\* C17: a scheduling tick of a playing scheduler invokes beatCallback for
\* exactly the beats whose scheduled time is < now + 0.1 s: the i-th of them
\* is the beat reached from currentBeat by i - 1 advances (plus 1, wrapping
\* to loopStart when looping is enabled and loopEnd is reached) at time
\* nextNoteTime + (i - 1) * 60/tempo/4; afterwards currentBeat and
\* nextNoteTime are advanced past the last of them and
\* nextNoteTime >= now + 0.1 s.
RECURSIVE C17_Advanced(_, _)
C17_Advanced(b, i) ==
  IF i = 0 THEN b
  ELSE LET n == C17_Advanced(b, i - 1) + 1
       IN IF loopEnabled /\ n >= loopEnd THEN loopStart ELSE n

C17_TickDispatchesWindow ==
  [][(ApiTimerFires /\ isPlaying) =>
       LET k == Len(beatLog') - Len(beatLog)
           step == SecondsPer16th(tempo)
       IN /\ k >= 0
          /\ SubSeq(beatLog', 1, Len(beatLog)) = beatLog
          /\ \A i \in 1..k :
               LET e == beatLog'[Len(beatLog) + i]
               IN /\ e.beat = C17_Advanced(currentBeat, i - 1)
                  /\ e.time = nextNoteTime + (i - 1) * step
                  /\ e.time < now + SCHEDULE_AHEAD_SEC
          /\ currentBeat' = C17_Advanced(currentBeat, k)
          /\ nextNoteTime' = nextNoteTime + k * step
          /\ nextNoteTime' >= now + SCHEDULE_AHEAD_SEC]_vars

C17_Witness ==
  /\ isPlaying
  /\ Len(beatLog) >= 3
  /\ nextNoteTime >= now + SCHEDULE_AHEAD_SEC
  /\ beatLog[Len(beatLog)].time >= beatLog[1].time + SCHEDULE_AHEAD_SEC
  /\ \E i \in 1..(Len(beatLog) - 1) : beatLog[i + 1].beat <= beatLog[i].beat

\* C16: loopEnd > loopStart in every reachable state, for the project
\* store's loop region and for the scheduler's loop bounds.
C16_LoopEndAfterStart ==
  /\ project.loopEnd > project.loopStart
  /\ loopEnd > loopStart

\* C18: in live playback and in offline rendering the notes of a track (one
\* with a registered instrument) are dispatched if and only if the track is
\* not muted and either no track of the snapshot is soloed or this track is
\* soloed; a track that is both muted and soloed is skipped.
C18_Dispatched(trks, k) ==
  /\ ~trks[k].muted
  /\ (\A j \in DOMAIN trks : ~trks[j].solo) \/ trks[k].solo

Configured(trks) == {k \in DOMAIN trks : trks[k].id \in DOMAIN instruments}

C18_MuteSolo ==
  LET trks == project.tracks
      r == renderToWav(trks, project.tempo, project.loopStart, project.loopEnd)
  IN /\ \A i \in 1..Len(beatLog) : \A k \in Configured(trks) :
          \A n \in 1..Len(trks[k].notes) :
            trks[k].notes[n].startBeat = beatLog[i].beat =>
              ((\E j \in 1..Len(voices) :
                  /\ voices[j].call = i
                  /\ voices[j].v.track = trks[k].id
                  /\ voices[j].v.pitch = trks[k].notes[n].pitch)
               <=> C18_Dispatched(trks, k))
     /\ \A k \in Configured(trks) : \A n \in 1..Len(trks[k].notes) :
          (project.loopStart <= trks[k].notes[n].startBeat
           /\ trks[k].notes[n].startBeat < project.loopEnd) =>
            ((\E j \in 1..Len(r) :
                /\ r[j].track = trks[k].id
                /\ r[j].pitch = trks[k].notes[n].pitch
                /\ r[j].startBeat = trks[k].notes[n].startBeat)
             <=> C18_Dispatched(trks, k))
     /\ \A j \in 1..Len(voices) : \E k \in DOMAIN trks :
          trks[k].id = voices[j].v.track /\ C18_Dispatched(trks, k)
     /\ \A j \in 1..Len(r) : \E k \in DOMAIN trks :
          trks[k].id = r[j].track /\ C18_Dispatched(trks, k)

C18_Witness ==
  /\ Len(beatLog) >= 2
  /\ Len(voices) > 0
  /\ project.tracks[1].muted /\ project.tracks[1].solo
  /\ ~project.tracks[2].muted /\ project.tracks[2].solo
  /\ \A j \in 1..Len(voices) : voices[j].v.track = "drums"

\* C19 (as stated): a track with no registered instrument produces no voice,
\* live or offline, and the notes of the other tracks are dispatched exactly
\* as if that track were absent from the snapshot.
LiveAt(i) ==
  LET sel == SelectSeq(voices, LAMBDA e : e.call = i)
  IN [j \in 1..Len(sel) |-> sel[j].v]

WithoutUnconfigured(trks) ==
  SelectSeq(trks, LAMBDA t : t.id \in DOMAIN instruments)

UnconfiguredEmptied(trks) ==
  [k \in DOMAIN trks |->
     IF trks[k].id \in DOMAIN instruments THEN trks[k]
     ELSE [trks[k] EXCEPT !.notes = <<>>]]

C19_AsIfAbsent ==
  /\ \A j \in 1..Len(voices) : voices[j].v.track \in DOMAIN instruments
  /\ \A i \in 1..Len(beatLog) :
       LiveAt(i) = playBeat(WithoutUnconfigured(project.tracks),
                            beatLog[i].beat, beatLog[i].time, tempo)
  /\ renderToWav(project.tracks, project.tempo, project.loopStart,
                 project.loopEnd)
       = renderToWav(WithoutUnconfigured(project.tracks), project.tempo,
                     project.loopStart, project.loopEnd)

\* C19 (amended): a track with no registered instrument produces no voice,
\* live or offline, and the notes of the other tracks are dispatched exactly
\* as if that track had no notes; its mute and solo flags still count, so
\* soloing it silences every track that is not soloed.
C19_AsIfWithoutNotes ==
  LET r == renderToWav(project.tracks, project.tempo, project.loopStart,
                       project.loopEnd)
  IN /\ \A j \in 1..Len(voices) : voices[j].v.track \in DOMAIN instruments
     /\ \A j \in 1..Len(r) : r[j].track \in DOMAIN instruments
     /\ \A i \in 1..Len(beatLog) :
          LiveAt(i) = playBeat(UnconfiguredEmptied(project.tracks),
                               beatLog[i].beat, beatLog[i].time, tempo)
     /\ r = renderToWav(UnconfiguredEmptied(project.tracks), project.tempo,
                        project.loopStart, project.loopEnd)

C19_Witness ==
  /\ Len(beatLog) >= 2
  /\ beatLog[1].beat = 0
  /\ \A k \in DOMAIN project.tracks :
       ~project.tracks[k].muted /\ ~project.tracks[k].solo
  /\ \E k \in DOMAIN project.tracks :
       /\ project.tracks[k].id \notin DOMAIN instruments
       /\ \E n \in 1..Len(project.tracks[k].notes) :
            project.tracks[k].notes[n].startBeat = 0
  /\ Len(LiveAt(1)) = 5

\* C20: a note on a drum track selects its recipe by the table 36 kick,
\* 38 snare, 42 closed hi-hat, 44 clap, 45 tom, 46 open hi-hat, 47 rimshot,
\* 49 crash, any other pitch kick; live playback, offline rendering and the
\* note preview choose alike.
C20_Recipe(pitch) ==
  CASE pitch = 36 -> "kick"
    [] pitch = 38 -> "snare"
    [] pitch = 42 -> "hihat"
    [] pitch = 44 -> "clap"
    [] pitch = 45 -> "tom"
    [] pitch = 46 -> "openhat"
    [] pitch = 47 -> "rimshot"
    [] pitch = 49 -> "crash"
    [] OTHER -> "kick"

C21_EveryDrumHitSounds ==
  \A j \in 1..Len(voices) :
    voices[j].v.drum # "none" => voices[j].v.nodes >= 1

\* The control points e of one envelope, against the arguments of the call.
C22_Envelope(e, st, d, a, dc, r) ==
  /\ e.releaseStart = st + (IF d - r >= a + dc THEN d - r ELSE a + dc)
  /\ e.releaseStart >= e.decayEnd
  /\ d < a + dc => e.releaseStart = st + a + dc
  /\ st <= e.attackEnd
  /\ e.attackEnd <= e.decayEnd
  /\ e.decayEnd <= e.releaseStart
  /\ e.releaseStart <= e.releaseEnd
  /\ e.attackEnd = st + a
  /\ e.decayEnd = st + a + dc
  /\ e.releaseEnd = e.releaseStart + r

\* C22: for non-negative attack, decay, release and duration the release
\* segment starts at startTime + max(duration - release, attack + decay),
\* never before the end of the decay stage; when duration < attack + decay
\* it starts exactly at startTime + attack + decay; and
\* startTime <= attackEnd <= decayEnd <= releaseStart <= releaseEnd, live and
\* offline.
C22_ReleaseAfterDecay ==
  (calc.op = "applyADSR" /\ calc.done) =>
    LET x == calc.args
    IN /\ C22_Envelope(calc.out.live, x[1], x[2], x[3], x[4], x[5])
       /\ C22_Envelope(calc.out.offline, x[1], x[2], x[3], x[4], x[5])

C22_Witness ==
  /\ calc.op = "applyADSR"
  /\ calc.done
  /\ calc.args[2] > 0
  /\ calc.args[2] < calc.args[3] + calc.args[4]
  /\ calc.args[5] > calc.args[2]
  /\ calc.out.live.releaseStart = calc.args[1] + calc.args[3] + calc.args[4]
  /\ calc.out.offline.releaseStart = calc.out.live.releaseStart

\* The cached duty cycles, in sixteenths.
CachedDuties == {2, 4, 8, 12}

\* C27: for every duty cycle d in [0, 1] getPulseWave(d) is a cached duty
\* cycle nearest to d, of two equally near ones the one nearer to
\* 0.5, and the live and the offline getPulseWave select the same one.
C27_NearestTiesTowardHalf ==
  (calc.op = "getPulseWave" /\ calc.done /\ calc.args[1] <= DutyUnit) =>
    LET d == calc.args[1]
        c == calc.out.live
    IN /\ c \in CachedDuties
       /\ \A o \in CachedDuties : Abs(d - c) <= Abs(d - o)
       /\ \A o \in CachedDuties :
            Abs(d - o) = Abs(d - c) => Abs(c - 8) <= Abs(o - 8)
       /\ calc.out.offline = c

\* C25: for a buffer of C channels, N frames and sample rate R the header
\* holds format 1, channel count C, sample rate R, block align 2C, byte rate
\* 2CR, 16 bits per sample, data length 2CN and RIFF size 36 + 2CN, and the
\* output is 44 + 2CN bytes long.
C25_WavHeader ==
  (calc.op = "bufferToWav" /\ calc.done) =>
    LET C == calc.args[1].numberOfChannels
        N == calc.args[1].length
        R == calc.args[1].sampleRate
        h == calc.out.header
    IN /\ h.format = 1
       /\ h.numChannels = C
       /\ h.sampleRate = R
       /\ h.blockAlign = 2 * C
       /\ h.byteRate = R * 2 * C
       /\ h.bitDepth = 16
       /\ h.fmtSize = 16
       /\ h.dataLength = 2 * C * N
       /\ h.riffSize = 36 + 2 * C * N
       /\ h.bufferLength = 44 + 2 * C * N
       /\ 44 + 2 * Len(calc.out.samples) = h.bufferLength

C25_Witness ==
  /\ calc.op = "bufferToWav"
  /\ calc.done
  /\ calc.args[1].numberOfChannels = 2
  /\ calc.args[1].length = 2
  /\ calc.args[1].sampleRate = 44100
  /\ calc.out.header.byteRate = 176400
  /\ calc.out.header.riffSize = 44

\* The 16-bit value of a sample x (in quarters): clamped to [-1, 1], negative
\* values times 0x8000, the others times 0x7FFF, fraction dropped.
C26_Expected(x) ==
  IF x <= -SampleUnit THEN -32768
  ELSE IF x >= SampleUnit THEN 32767
  ELSE IF x < 0 THEN x * 8192
  ELSE (x * 32767) \div SampleUnit

\* C26: every written sample is the clamped input scaled by 0x8000 (negative)
\* or 0x7FFF (non-negative), lies in [-32768, 32767], with -1, 0 and 1 giving
\* -32768, 0 and 32767, and the samples are interleaved frame by frame, channel
\* by channel.
C26_SamplesClampedInterleaved ==
  (calc.op = "bufferToWav" /\ calc.done) =>
    LET b == calc.args[1]
        C == b.numberOfChannels
    IN /\ Len(calc.out.samples) = b.length * C
       /\ \A i \in 1..b.length : \A ch \in 1..C :
            LET w == calc.out.samples[(i - 1) * C + ch]
                x == b.channels[ch][i]
            IN /\ w = C26_Expected(x)
               /\ w >= -32768
               /\ w <= 32767
               /\ x = -SampleUnit => w = -32768
               /\ x = 0 => w = 0
               /\ x = SampleUnit => w = 32767

C26_Witness ==
  /\ calc.op = "bufferToWav"
  /\ calc.done
  /\ calc.args[1].numberOfChannels = 2
  /\ calc.args[1].length = 2
  /\ calc.args[1].channels[1] = <<4, -5>>
  /\ calc.args[1].channels[2] = <<5, -4>>
  /\ calc.out.samples = <<32767, 32767, -32768, -32768>>

\* C23: every voice the offline renderer schedules for a note in the loop
\* region stops at or before the render duration
\* (loopEnd - loopStart) * 15/tempo + 1.0 s.
C23_NoVoiceTruncated ==
  (calc.op = "renderToWav" /\ calc.done) =>
    \A k \in DOMAIN calc.out.voices :
      calc.out.voices[k].drum = "none" => calc.out.stops[k] <= calc.out.duration

\* a/b <= c/d for positive denominators.
RatLeq(x, y) == x[1] * y[2] <= y[1] * x[2]

\* C24: the values passed to onProgress are non-decreasing and in [0, 1]:
\* 0.5 * k / total, in (0, 0.5], after the k-th scheduled note, then 0.9
\* once, then 1.0 once, and 1.0 is the last.
C24_ProgressMonotone ==
  (calc.op = "renderToWav" /\ calc.done) =>
    LET g == calc.out.progress
        n == Len(g)
        trks == calc.args[1].tracks
        total == Len(trks[1].notes) + Len(trks[2].notes) + Len(trks[3].notes)
    IN /\ n >= 2
       /\ n - 2 = Len(calc.out.voices)
       /\ \A k \in 1..n : RatLeq(<<0, 1>>, g[k]) /\ RatLeq(g[k], <<1, 1>>)
       /\ \A k \in 1..(n - 1) : RatLeq(g[k], g[k + 1])
       /\ \A k \in 1..(n - 2) :
            /\ g[k][1] * 2 * total = k * g[k][2]
            /\ g[k][1] > 0
            /\ RatLeq(g[k], <<1, 2>>)
       /\ g[n - 1] = <<9, 10>>
       /\ g[n] = <<1, 1>>

C24_Witness ==
  /\ calc.op = "renderToWav"
  /\ calc.done
  /\ calc.out.progress =
       << <<1, 10>>, <<2, 10>>, <<3, 10>>, <<4, 10>>, <<9, 10>>, <<1, 1>> >>

\* C28: every playback-control call made on the engine before initialize()
\* throws an error, and none of them initializes the engine.
C28_FailFastBeforeInit ==
  (calc.op \in EngineOps /\ calc.done /\ ~calc.out.initialized) =>
    /\ calc.out.outcome = "threw"
    /\ ~calc.out.initializedAfter

\* The times of two consecutive beatCallback invocations made at one tempo
\* differ by one sixteenth at that tempo.
C29_StepBetween(i) ==
  beatLog[i + 1].tempo = beatLog[i].tempo =>
    beatLog[i + 1].time - beatLog[i].time = SecondsPer16th(beatLog[i].tempo)

\* One sixteenth at the scheduler's tempo lasts 15/tempo seconds, beatToTime
\* is b * 15/tempo, strictly increasing in b, and the offline renderer places
\* each note by the same mapping.
C29_Mapping ==
  /\ tempo * SecondsPer16th(tempo) = 15 * TicksPerSecond
  /\ \A b \in 0..MaxBeat :
       /\ tempo * beatToTime(tempo, b) = b * 15 * TicksPerSecond
       /\ beatToTime(tempo, b + 1) - beatToTime(tempo, b) = SecondsPer16th(tempo)
       /\ beatToTime(tempo, b + 1) > beatToTime(tempo, b)
  /\ LET r == renderToWav(project.tracks, tempo, loopStart, loopEnd)
     IN \A j \in 1..Len(r) :
          r[j].time = beatToTime(tempo, r[j].startBeat - loopStart)

\* C29 as stated: within one play session at constant tempo the times of
\* consecutive beatCallback invocations always differ by exactly 15/tempo.
C29_Original ==
  /\ C29_Mapping
  /\ \A i \in 1..(Len(beatLog) - 1) : C29_StepBetween(i)

\* C29: a sixteenth lasts 15/tempo seconds, beatToTime(b) = b * 15/tempo is
\* linear and strictly increasing, the offline renderer uses the same
\* mapping, and within one play session at constant tempo the times of
\* consecutive beatCallback invocations differ by exactly 15/tempo unless
\* resume() was called between them, which restarts the times at the clock.
C29_BeatSpacing ==
  /\ C29_Mapping
  /\ \A i \in 1..(Len(beatLog) - 1) :
       beatLog[i + 1].resumes = beatLog[i].resumes => C29_StepBetween(i)

C29_Witness ==
  /\ Len(beatLog) >= 3
  /\ beatLog[2].resumes = beatLog[1].resumes
  /\ beatLog[2].time = beatLog[1].time + SecondsPer16th(tempo)
  /\ beatLog[3].resumes > beatLog[2].resumes
  /\ beatLog[3].tempo = beatLog[2].tempo
  /\ beatLog[3].time # beatLog[2].time + SecondsPer16th(tempo)
  /\ Len(renderToWav(project.tracks, tempo, loopStart, loopEnd)) >= 2

\* The voices of the call-th beatCallback invocation after a step.
C30_LiveAfter(call) ==
  LET sel == SelectSeq(voices', LAMBDA e : e.call = call)
  IN [j \in 1..Len(sel) |-> sel[j].v]

\* The gain of the voice of a note, from the stores' values before the step.
C30_Gain(track, note) ==
  LET g == FMul(FMul(instruments[track.id].gain, track.volume), note.velocity)
  IN IF track.type = "drums" THEN g ELSE FMul(g, note.velocity)

\* The voices of the call-th invocation are those of the notes, mute flags
\* and gains the stores hold when the step is taken.
C30_FreshCall(call) ==
  LET e == beatLog'[call]
      trks == project.tracks
      live == C30_LiveAfter(call)
  IN /\ \A k \in Configured(trks) : \A n \in 1..Len(trks[k].notes) :
          trks[k].notes[n].startBeat = e.beat =>
            ((\E j \in 1..Len(live) :
                /\ live[j].track = trks[k].id
                /\ live[j].pitch = trks[k].notes[n].pitch
                /\ live[j].gain = C30_Gain(trks[k], trks[k].notes[n]))
             <=> C18_Dispatched(trks, k))
     /\ \A j \in 1..Len(live) :
          /\ live[j].startBeat = e.beat
          /\ live[j].time = e.time
          /\ \E k \in Configured(trks) : \E n \in 1..Len(trks[k].notes) :
               /\ C18_Dispatched(trks, k)
               /\ trks[k].id = live[j].track
               /\ trks[k].notes[n].pitch = live[j].pitch
               /\ trks[k].notes[n].startBeat = e.beat
               /\ live[j].gain = C30_Gain(trks[k], trks[k].notes[n])

\* C30: the voices dispatched for a beat are those of the tracks and
\* instrument configs the stores hold when the beat is passed to
\* beatCallback, so an edit made before that affects them; a later dispatch
\* keeps the voices already dispatched, and an edit of the tracks or of an
\* instrument changes no dispatched voice.
C30_EditsReadAtDispatch ==
  /\ [][EditPlay => \A c \in 1..Len(beatLog') : C30_FreshCall(c)]_vars
  /\ [][EditTimerFires =>
          /\ Len(beatLog') >= Len(beatLog)
          /\ SubSeq(beatLog', 1, Len(beatLog)) = beatLog
          /\ SubSeq(voices', 1, Len(voices)) = voices
          /\ \A c \in (Len(beatLog) + 1)..Len(beatLog') : C30_FreshCall(c)]_vars
  /\ [][(project' # project \/ instruments' # instruments) =>
          /\ voices' = voices
          /\ beatLog' = beatLog
          /\ notesInQueue' = notesInQueue]_vars

C30_Witness ==
  /\ Len(beatLog) = 3
  /\ beatLog[1].beat = 0
  /\ beatLog[3].beat = 0
  /\ \E j \in 1..Len(voices) :
       /\ voices[j].call = 1
       /\ voices[j].v.track = "lead"
       /\ voices[j].v.pitch = 69
  /\ \E j \in 1..Len(voices) :
       /\ voices[j].call = 3
       /\ voices[j].v.track = "lead"
       /\ voices[j].v.pitch = 60
       /\ voices[j].v.gain = FMul(FMul(FMul(5000, 8000), 8000), 8000)
  /\ \A j \in 1..Len(voices) :
       voices[j].call = 3 => voices[j].v.pitch # 69
  /\ project.tracks[1].muted
  /\ instruments.lead.gain = 10000

\* C31: the undo stack never holds more than 50 states, the two stacks
\* together never more than 50, and a push onto a full undo stack drops the
\* oldest state and puts the new one on top.
C31_HistoryBounded ==
  /\ [](/\ Len(history.undoStack) <= 50
        /\ Len(history.undoStack) + Len(history.redoStack) <= 50)
  /\ [][(PushState /\ Len(history.undoStack) = 50 /\ ~history.isUndoRedoing) =>
          history'.undoStack =
            Append(Tail(history.undoStack), getSnapshot(project))]_vars

C31_Witness ==
  /\ calc.op = "pushState"
  /\ calc.out.full
  /\ Len(history.undoStack) = 50
  /\ history.undoStack[1].tempo = 240
  /\ history.redoStack = <<>>

\* C38: redo() right after a successful undo() gives back the tracks, tempo
\* and loop region the project had before the undo and the stack sizes of
\* before; undo() on an empty undo stack and redo() on an empty redo stack
\* return false and change nothing; pushState() leaves the redo stack empty.
C38_UndoRedoRoundTrip ==
  /\ [][(calc.op = "undo" /\ calc.out.result /\ Redo) =>
          /\ getSnapshot(project') = calc.out.snapshot
          /\ Len(history'.undoStack) = calc.out.undoSize
          /\ Len(history'.redoStack) = calc.out.redoSize]_vars
  /\ [][(Undo /\ Len(history.undoStack) = 0) =>
          /\ ~calc'.out.result
          /\ history' = history
          /\ project' = project]_vars
  /\ [][(Redo /\ Len(history.redoStack) = 0) =>
          /\ ~calc'.out.result
          /\ history' = history
          /\ project' = project]_vars
  /\ [][PushState => history'.redoStack = <<>>]_vars

\* C32: every pitched or noise voice stops its source, at
\* startTime + duration + release + 0.05 s, no earlier than the end of its
\* release ramp, live and offline, notes shorter than attack + decay included.
C32_StopAfterRelease ==
  (calc.op = "oscillator.playNote" /\ calc.done) =>
    /\ calc.out.live.stop >= calc.out.live.envelope.releaseEnd
    /\ calc.out.offline.stop >= calc.out.offline.envelope.releaseEnd

\* C33: between start() and the next stop() the audio times passed to
\* successive beatCallback invocations are strictly increasing, across
\* pause() and resume() too, so the pending-visual queue is ordered by
\* non-decreasing time.
C33_TimesIncrease ==
  /\ \A i \in 1..(Len(beatLog) - 1) : beatLog[i + 1].time > beatLog[i].time
  /\ \A i \in 1..(Len(notesInQueue) - 1) :
       notesInQueue[i + 1].time >= notesInQueue[i].time

\* C34: whatever the order of start, pause, resume, stop, timer firings and
\* frame firings, at most one scheduling timer and at most one animation
\* frame are pending, they are the ones the scheduler holds the handles of,
\* and none is pending while the scheduler is not playing.
C34_OneTimerOneFrame ==
  /\ Cardinality(timers) <= 1
  /\ Cardinality(frames) <= 1
  /\ timers \subseteq {timerID}
  /\ frames \subseteq {animationFrameId}
  /\ ~isPlaying => (timers = {} /\ frames = {})

C34_Witness ==
  /\ isPlaying
  /\ resumes >= 1
  /\ Cardinality(timers) = 1
  /\ Cardinality(frames) = 1
  /\ Len(visLog) >= 1
  /\ Len(beatLog) >= 2

\* C35: every scheduling tick terminates, whatever tempo reached the
\* scheduler through start(tempo) or setTempo(bpm), tempos loaded unclamped
\* from a project file included.
C35_TickTerminates == (calc.op = "schedule" /\ ~calc.done) ~> calc.done

\* C36: after any number of initialize() calls, one after another or
\* overlapping, the engine has created exactly one AudioContext, one master
\* bus, one oscillator and one Scheduler; a call made once the engine is
\* initialized creates nothing and only resumes the context.
C36_InitializeOnce ==
  /\ [](engine.calls >= 1 =>
          /\ isInitialized
          /\ engine.contexts = 1
          /\ engine.buses = 1
          /\ engine.oscillators = 1
          /\ engine.schedulers = 1)
  /\ [][(EngineInitialize /\ isInitialized) =>
          /\ engine'.contexts = engine.contexts
          /\ engine'.buses = engine.buses
          /\ engine'.oscillators = engine.oscillators
          /\ engine'.schedulers = engine.schedulers
          /\ engine'.resumeCalls =
               engine.resumeCalls
                 + (IF engine.state = "suspended" THEN 1 ELSE 0)]_vars

C36_Witness ==
  /\ engine.calls >= 3
  /\ engine.awaitingResume >= 2
  /\ engine.resumeCalls >= 2
  /\ engine.contexts = 1
  /\ ~engine.isReady

\* C37: whenever no play() is awaiting, the transport store says 'playing'
\* exactly when the scheduler is playing, and when the last operation called
\* was stop() or pause(), also one called while a play() was awaiting,
\* playback is stopped or paused.
C37_TransportMatchesScheduler ==
  (inFlight.initializing = 0 /\ inFlight.resuming = 0) =>
    /\ (transport.playbackState = "playing") <=> isPlaying
    /\ inFlight.last \in {"stop", "pause"} =>
         (~isPlaying /\ transport.playbackState # "playing")

====
